---------------------------- MODULE Spec2Model ----------------------------
(***************************************************************************)
(* A model of loco, a line counter and code analyser (src/src/loco.rs and  *)
(* src/src/main.rs).                                                       *)
(*                                                                         *)
(* Spec      : analyze_file_advanced scanning one file line by line.       *)
(* SpecTwice : two independent invocations of analyze_file_advanced over   *)
(*             the same content, interleaved.                              *)
(* SpecMerge : the parallel loop of main (loco.rs) merging per-file        *)
(*             records into the DashMap of language aggregates, followed   *)
(*             by the sequential post-pass.                                *)
(*                                                                         *)
(* Text is kept as TLA+ strings; a position is a 0-based byte offset as in *)
(* Rust, and -1 stands for None.  Floating-point values are kept as exact  *)
(* rationals <<numerator, denominator>> or in the unit stated beside them. *)
(***************************************************************************)
EXTENDS Integers, Sequences, FiniteSets, TLC

(***************************************************************************)
(* Bounds of the model.                                                    *)
(***************************************************************************)
\* the longest file the line scanner is fed, in lines
MaxLines == 3

\* the longest file two invocations scan side by side, in lines
MaxLinesTwice == 2

\* the files of a run of the parallel loop
NumFiles == 3

\* the threads of the rayon pool
NumWorkers == 2

\* the shards of the DashMap of language aggregates
NumShards == 2

(***************************************************************************)
(* String helpers: the parts of Rust's str API the scanner uses.           *)
(***************************************************************************)
MinOf(S) == CHOOSE x \in S : \A y \in S : x <= y

MaxOf(a, b) == IF a >= b THEN a ELSE b

IsWhitespace(c) == c \in {" ", "\t"}

RECURSIVE TrimStart(_)
TrimStart(s) ==
  IF Len(s) > 0 /\ IsWhitespace(SubSeq(s, 1, 1))
  THEN TrimStart(SubSeq(s, 2, Len(s)))
  ELSE s

RECURSIVE TrimEnd(_)
TrimEnd(s) ==
  IF Len(s) > 0 /\ IsWhitespace(SubSeq(s, Len(s), Len(s)))
  THEN TrimEnd(SubSeq(s, 1, Len(s) - 1))
  ELSE s

\* str::trim
Trim(s) == TrimEnd(TrimStart(s))

\* str::find(pat): offset of the first occurrence of pat in s, -1 for None
Find(s, pat) ==
  LET hits == {i \in 0..(Len(s) - Len(pat)) : SubSeq(s, i + 1, i + Len(pat)) = pat}
  IN  IF hits = {} THEN -1 ELSE MinOf(hits)

\* str::contains(pat)
Contains(s, pat) == Find(s, pat) # -1

\* &s[i..]
SliceFrom(s, i) == SubSeq(s, i + 1, Len(s))

\* &s[..i]
SliceTo(s, i) == SubSeq(s, 1, i)

\* str::matches(c).count()
MatchCount(s, c) == Cardinality({i \in 1..Len(s) : SubSeq(s, i, i) = c})

LowerLetters == "abcdefghijklmnopqrstuvwxyz"

UpperLetters == "ABCDEFGHIJKLMNOPQRSTUVWXYZ"

\* char::to_uppercase of the ASCII letters
UpperOf ==
  [c \in {SubSeq(LowerLetters, i, i) : i \in 1..Len(LowerLetters)} |->
     LET i == CHOOSE i \in 1..Len(LowerLetters) : SubSeq(LowerLetters, i, i) = c
     IN  SubSeq(UpperLetters, i, i)]

UpperChar(c) == IF c \in DOMAIN UpperOf THEN UpperOf[c] ELSE c

RECURSIVE ToUppercase(_)
\* str::to_uppercase
ToUppercase(s) ==
  IF Len(s) = 0 THEN s
  ELSE UpperChar(SubSeq(s, 1, 1)) \o ToUppercase(SubSeq(s, 2, Len(s)))

\* the first (1-based) keyword of kws contained in s, 0 when none is:
\* `for keyword in kws { if s.contains(keyword) { ...; break; } }`
FirstContained(s, kws) ==
  LET hits == {k \in 1..Len(kws) : Contains(s, kws[k])}
  IN  IF hits = {} THEN 0 ELSE MinOf(hits)

(***************************************************************************)
(* LanguageConfig: the rule table.  One extension stands for every         *)
(* extension with the same comment delimiters: "rs" also for js, java, c,  *)
(* h, cpp, go, css, swift and dart; "yaml" for sh, r, toml, dockerfile and *)
(* make; "xml" for md.                                                     *)
(***************************************************************************)
Extensions ==
  {"rs", "py", "php", "json", "yaml", "xml", "sql", "rb", "lua", "perl", "asm", "ini"}

get_config(extension) ==
  CASE extension = "rs" ->
      [single_line_comments |-> <<"//">>,
       multi_line_comments |-> << <<"/*", "*/">> >>,
       function_keywords |-> <<"fn ", "async fn ">>,
       class_keywords |-> <<"struct ", "enum ", "trait ", "impl ">>,
       import_keywords |-> <<"use ", "extern ", "mod ">>,
       complexity_keywords |-> <<"if ", "while ", "for ", "match ", "loop ", "else if ">>,
       test_keywords |-> <<"#[test]", "#[cfg(test)]", "assert!">>,
       doc_keywords |-> <<"///", "//!", "#[doc">>]
    [] extension = "py" ->
      [single_line_comments |-> <<"#">>,
       multi_line_comments |-> << <<"\"\"\"", "\"\"\"">>, <<"'''", "'''">> >>,
       function_keywords |-> <<"def ", "async def ", "lambda ">>,
       class_keywords |-> <<"class ">>,
       import_keywords |-> <<"import ", "from ">>,
       complexity_keywords |-> <<"if ", "while ", "for ", "try ", "except ", "with ", "elif ">>,
       test_keywords |-> <<"def test_", "import unittest", "import pytest">>,
       doc_keywords |-> <<"\"\"\"", "'''", "# TODO", "# FIXME">>]
    [] extension = "php" ->
      [single_line_comments |-> <<"//", "#">>,
       multi_line_comments |-> << <<"/*", "*/">> >>,
       function_keywords |-> <<"function ", "public function ", "private function ">>,
       class_keywords |-> <<"class ", "interface ", "trait ", "abstract ">>,
       import_keywords |-> <<"require", "include", "use ">>,
       complexity_keywords |-> <<"if ", "while ", "for ", "switch ", "try ", "catch ">>,
       test_keywords |-> <<"function test", "PHPUnit">>,
       doc_keywords |-> <<"/**", "//", "*">>]
    [] extension = "json" ->
      [single_line_comments |-> <<>>,
       multi_line_comments |-> <<  >>,
       function_keywords |-> <<>>,
       class_keywords |-> <<>>,
       import_keywords |-> <<>>,
       complexity_keywords |-> <<>>,
       test_keywords |-> <<>>,
       doc_keywords |-> <<>>]
    [] extension = "yaml" ->
      [single_line_comments |-> <<"#">>,
       multi_line_comments |-> <<  >>,
       function_keywords |-> <<>>,
       class_keywords |-> <<>>,
       import_keywords |-> <<>>,
       complexity_keywords |-> <<>>,
       test_keywords |-> <<>>,
       doc_keywords |-> <<"#">>]
    [] extension = "xml" ->
      [single_line_comments |-> <<>>,
       multi_line_comments |-> << <<"<!--", "-->">> >>,
       function_keywords |-> <<>>,
       class_keywords |-> <<>>,
       import_keywords |-> <<>>,
       complexity_keywords |-> <<>>,
       test_keywords |-> <<>>,
       doc_keywords |-> <<"<!--">>]
    [] extension = "sql" ->
      [single_line_comments |-> <<"--">>,
       multi_line_comments |-> << <<"/*", "*/">> >>,
       function_keywords |-> <<"CREATE FUNCTION", "CREATE PROCEDURE">>,
       class_keywords |-> <<"CREATE TABLE", "CREATE VIEW">>,
       import_keywords |-> <<>>,
       complexity_keywords |-> <<"IF ", "WHILE ", "CASE ">>,
       test_keywords |-> <<>>,
       doc_keywords |-> <<"--", "/*">>]
    [] extension = "rb" ->
      [single_line_comments |-> <<"#">>,
       multi_line_comments |-> << <<"=begin", "=end">> >>,
       function_keywords |-> <<"def ">>,
       class_keywords |-> <<"class ", "module ">>,
       import_keywords |-> <<"require ", "load ">>,
       complexity_keywords |-> <<"if ", "while ", "for ", "case ", "elsif ">>,
       test_keywords |-> <<"describe ", "it ", "test_">>,
       doc_keywords |-> <<"#", "=begin">>]
    [] extension = "lua" ->
      [single_line_comments |-> <<"--">>,
       multi_line_comments |-> << <<"--[[", "]]">> >>,
       function_keywords |-> <<"function ", "local function ">>,
       class_keywords |-> <<>>,
       import_keywords |-> <<"require(", "dofile(">>,
       complexity_keywords |-> <<"if ", "while ", "for ", "elseif ">>,
       test_keywords |-> <<>>,
       doc_keywords |-> <<"--", "--[[">>]
    [] extension = "perl" ->
      [single_line_comments |-> <<"#">>,
       multi_line_comments |-> << <<"=pod", "=cut">> >>,
       function_keywords |-> <<"sub ">>,
       class_keywords |-> <<"package ">>,
       import_keywords |-> <<"use ", "require ">>,
       complexity_keywords |-> <<"if ", "while ", "for ", "elsif ">>,
       test_keywords |-> <<"ok(", "is(">>,
       doc_keywords |-> <<"#", "=pod">>]
    [] extension = "asm" ->
      [single_line_comments |-> <<";", "#", "//">>,
       multi_line_comments |-> << <<"/*", "*/">> >>,
       function_keywords |-> <<".globl", ".global">>,
       class_keywords |-> <<".section", ".data", ".text">>,
       import_keywords |-> <<".include">>,
       complexity_keywords |-> <<"jmp", "je", "jne", "call">>,
       test_keywords |-> <<>>,
       doc_keywords |-> <<";", "//">>]
    [] extension = "ini" ->
      [single_line_comments |-> <<";", "#">>,
       multi_line_comments |-> <<  >>,
       function_keywords |-> <<>>,
       class_keywords |-> <<>>,
       import_keywords |-> <<>>,
       complexity_keywords |-> <<>>,
       test_keywords |-> <<>>,
       doc_keywords |-> <<";", "#">>]

get_simple_config ==
  [single_line_comments |-> <<"#", "//", ";", "--">>,
   multi_line_comments |-> << <<"/*", "*/">>, <<"<!--", "-->">> >>,
   function_keywords |-> <<"function", "def", "fn">>,
   class_keywords |-> <<"class", "struct", "type">>,
   import_keywords |-> <<"import", "include", "use", "require">>,
   complexity_keywords |-> <<"if", "while", "for", "switch", "case">>,
   test_keywords |-> <<"test", "spec", "assert">>,
   doc_keywords |-> <<"#", "//", "/*">>]

\* the rule a file is scanned with: "simple" names get_simple_config, the
\* rule of files with an unknown extension under --include-unknown
Rules == Extensions \cup {"simple"}

\* the LanguageConfig of each rule
Configs == [r \in Rules |-> IF r = "simple" THEN get_simple_config ELSE get_config(r)]

RuleOf(r) == Configs[r]

\* test_keyword.to_uppercase() of every test keyword list of the table
UpperKeywords ==
  [kws \in {Configs[r].test_keywords : r \in Rules} |->
     [k \in 1..Len(kws) |-> ToUppercase(kws[k])]]

(***************************************************************************)
(* analyze_file_advanced: the line scan.                                   *)
(*                                                                         *)
(* complexity_score is kept in hundredths (1.0 is 100, 0.05 is 5).         *)
(***************************************************************************)
\* the locals of analyze_file_advanced before the loop
ScanInit ==
  [code_lines |-> 0, comment_lines |-> 0, blank_lines |-> 0,
   functions |-> 0, classes |-> 0, imports |-> 0, todos |-> 0, fixmes |-> 0,
   complexity_score |-> 0, cyclomatic_complexity |-> 0,
   max_line_length |-> 0, total_chars |-> 0,
   test_indicators |-> 0, doc_indicators |-> 0,
   in_multi_comment |-> FALSE, multi_comment_end |-> "", nesting_level |-> 0]

\* the body of `if !found_comment { ... }`: a code line and its keyword scans
CodeLine(config, s, line_content) ==
  LET hit == FirstContained(line_content, config.complexity_keywords) # 0
      nesting == s.nesting_level + MatchCount(line_content, "{")
                                 - MatchCount(line_content, "}")
  IN  [s EXCEPT
         !.code_lines = @ + 1,
         !.complexity_score = @ + (IF hit THEN 100 ELSE 0)
                                + (IF nesting > 0 THEN 5 ELSE 0),
         !.cyclomatic_complexity = @ + (IF hit THEN 1 ELSE 0),
         !.nesting_level = nesting,
         !.functions = @ + (IF FirstContained(line_content, config.function_keywords) # 0
                            THEN 1 ELSE 0),
         !.classes = @ + (IF FirstContained(line_content, config.class_keywords) # 0
                          THEN 1 ELSE 0),
         !.imports = @ + (IF FirstContained(line_content, config.import_keywords) # 0
                          THEN 1 ELSE 0)]

\* SingleLine with the keyword scans and the brace count run on comment
\* lines as well
SingleLine_ScansComment(config, s, line_content) ==
  LET k == FirstContained(line_content, config.single_line_comments)
      pos == Find(line_content, config.single_line_comments[k])
      before_comment == Trim(SliceTo(line_content, pos))
  IN  IF k = 0 THEN CodeLine(config, s, line_content)
      ELSE IF before_comment = ""
      THEN [CodeLine(config, s, line_content) EXCEPT
              !.code_lines = s.code_lines, !.comment_lines = @ + 1]
      ELSE CodeLine(config, [s EXCEPT !.code_lines = @ + 1], line_content)

\* `if !is_comment { ... }`: the single-line comment markers, then the code line
SingleLine(config, s, line_content) ==
  LET k == FirstContained(line_content, config.single_line_comments)
      pos == Find(line_content, config.single_line_comments[k])
      before_comment == Trim(SliceTo(line_content, pos))
  IN  IF k = 0 THEN CodeLine(config, s, line_content)
      ELSE IF before_comment = ""
      THEN [s EXCEPT !.comment_lines = @ + 1]
      ELSE CodeLine(config, [s EXCEPT !.code_lines = @ + 1], line_content)

\* MultiLineStart leaving the scan outside the comment when code stands
\* before a start marker that is not closed on the line
MultiLineStart_MixedStaysNormal(s, line_content, pair) ==
  LET start == pair[1]
      end == pair[2]
      start_pos == Find(line_content, start)
      before_comment == Trim(SliceTo(line_content, start_pos))
      tail == SliceFrom(line_content, start_pos + Len(start))
      end_pos == Find(tail, end)
      after_comment == Trim(SliceFrom(tail, end_pos + Len(end)))
  IN  IF end_pos # -1
      THEN IF before_comment # "" \/ after_comment # ""
           THEN [s EXCEPT !.code_lines = @ + 1]
           ELSE [s EXCEPT !.comment_lines = @ + 1]
      ELSE IF before_comment # ""
           THEN [s EXCEPT !.code_lines = @ + 1]
           ELSE [s EXCEPT !.in_multi_comment = TRUE, !.multi_comment_end = end,
                          !.comment_lines = @ + 1]

\* MultiLineStart without `in_multi_comment = true`: a comment that is not
\* closed on its line is not carried to the next
MultiLineStart_NoCarry(s, line_content, pair) ==
  LET start == pair[1]
      end == pair[2]
      start_pos == Find(line_content, start)
      before_comment == Trim(SliceTo(line_content, start_pos))
      tail == SliceFrom(line_content, start_pos + Len(start))
      end_pos == Find(tail, end)
      after_comment == Trim(SliceFrom(tail, end_pos + Len(end)))
  IN  IF end_pos # -1
      THEN IF before_comment # "" \/ after_comment # ""
           THEN [s EXCEPT !.code_lines = @ + 1]
           ELSE [s EXCEPT !.comment_lines = @ + 1]
      ELSE IF before_comment # ""
           THEN [s EXCEPT !.multi_comment_end = end, !.code_lines = @ + 1]
           ELSE [s EXCEPT !.multi_comment_end = end, !.comment_lines = @ + 1]

\* a line that contains the start marker of the multi-line pair `pair`
MultiLineStart(s, line_content, pair) ==
  LET start == pair[1]
      end == pair[2]
      start_pos == Find(line_content, start)
      before_comment == Trim(SliceTo(line_content, start_pos))
      tail == SliceFrom(line_content, start_pos + Len(start))
      end_pos == Find(tail, end)
      after_comment == Trim(SliceFrom(tail, end_pos + Len(end)))
  IN  IF end_pos # -1
      THEN IF before_comment # "" \/ after_comment # ""
           THEN [s EXCEPT !.code_lines = @ + 1]
           ELSE [s EXCEPT !.comment_lines = @ + 1]
      ELSE IF before_comment # ""
           THEN [s EXCEPT !.in_multi_comment = TRUE, !.multi_comment_end = end,
                          !.code_lines = @ + 1]
           ELSE [s EXCEPT !.in_multi_comment = TRUE, !.multi_comment_end = end,
                          !.comment_lines = @ + 1]

\* ClassifyContent with the pair whose start marker occurs leftmost in the
\* line winning, instead of the first configured pair that occurs
ClassifyContent_Leftmost(config, s, line_content) ==
  LET starts == [k \in 1..Len(config.multi_line_comments) |->
                   config.multi_line_comments[k][1]]
      found == {k \in 1..Len(starts) : Contains(line_content, starts[k])}
      m == CHOOSE k \in found :
             \A j \in found :
               \/ Find(line_content, starts[k]) < Find(line_content, starts[j])
               \/ Find(line_content, starts[k]) = Find(line_content, starts[j]) /\ k <= j
  IN  IF found # {}
      THEN MultiLineStart(s, line_content, config.multi_line_comments[m])
      ELSE SingleLine(config, s, line_content)

\* the scan of line_content outside a multi-line comment: the multi-line start
\* markers in configured order, then the single-line markers
ClassifyContent(config, s, line_content) ==
  LET starts == [k \in 1..Len(config.multi_line_comments) |->
                   config.multi_line_comments[k][1]]
      m == FirstContained(line_content, starts)
  IN  IF m # 0
      THEN MultiLineStart(s, line_content, config.multi_line_comments[m])
      ELSE SingleLine(config, s, line_content)

\* InsideComment without `comment_lines += 1`
InsideComment_Uncounted(config, s, line_content) ==
  LET end_pos == Find(line_content, s.multi_comment_end)
      remainder == Trim(SliceFrom(line_content, end_pos + Len(s.multi_comment_end)))
      closed == [s EXCEPT !.in_multi_comment = FALSE]
  IN  IF end_pos = -1 THEN s
      ELSE IF remainder = "" THEN closed
      ELSE ClassifyContent(config, closed, remainder)

\* InsideComment without the `continue` of a line that does not close the
\* comment: the line is scanned again as if outside
InsideComment_NoContinue(config, s, line_content) ==
  LET counted == [s EXCEPT !.comment_lines = @ + 1]
      end_pos == Find(line_content, s.multi_comment_end)
      remainder == Trim(SliceFrom(line_content, end_pos + Len(s.multi_comment_end)))
      closed == [counted EXCEPT !.in_multi_comment = FALSE]
  IN  IF end_pos = -1 THEN ClassifyContent(config, counted, line_content)
      ELSE IF remainder = "" THEN closed
      ELSE ClassifyContent(config, closed, remainder)

\* `if in_multi_comment { ... }` and what follows it
InsideComment(config, s, line_content) ==
  LET counted == [s EXCEPT !.comment_lines = @ + 1]
      end_pos == Find(line_content, s.multi_comment_end)
      remainder == Trim(SliceFrom(line_content, end_pos + Len(s.multi_comment_end)))
      closed == [counted EXCEPT !.in_multi_comment = FALSE]
  IN  IF end_pos = -1 THEN counted
      ELSE IF remainder = "" THEN closed
      ELSE ClassifyContent(config, closed, remainder)

\* Markers counting FIXME alone as a fixme
Markers_FixmeOnly(config, s, trimmed) ==
  LET line_upper == ToUppercase(trimmed)
      upper_tests == UpperKeywords[config.test_keywords]
  IN  [s EXCEPT
         !.todos = @ + (IF Contains(line_upper, "TODO") THEN 1 ELSE 0),
         !.fixmes = @ + (IF Contains(line_upper, "FIXME") THEN 1 ELSE 0),
         !.test_indicators = @ + (IF FirstContained(line_upper, upper_tests) # 0
                                  THEN 1 ELSE 0),
         !.doc_indicators = @ + (IF FirstContained(trimmed, config.doc_keywords) # 0
                                 THEN 1 ELSE 0)]

\* the TODO/FIXME markers and the test and documentation indicators of a
\* non-blank line
Markers(config, s, trimmed) ==
  LET line_upper == ToUppercase(trimmed)
      upper_tests == UpperKeywords[config.test_keywords]
  IN  [s EXCEPT
         !.todos = @ + (IF Contains(line_upper, "TODO") THEN 1 ELSE 0),
         !.fixmes = @ + (IF \/ Contains(line_upper, "FIXME")
                            \/ Contains(line_upper, "HACK")
                            \/ Contains(line_upper, "BUG")
                         THEN 1 ELSE 0),
         !.test_indicators = @ + (IF FirstContained(line_upper, upper_tests) # 0
                                  THEN 1 ELSE 0),
         !.doc_indicators = @ + (IF FirstContained(trimmed, config.doc_keywords) # 0
                                 THEN 1 ELSE 0)]

\* ClassifyLine testing the line, not the trimmed line, for emptiness
ClassifyLine_Untrimmed(config, s, line) ==
  LET trimmed == Trim(line)
      measured == [s EXCEPT !.max_line_length = MaxOf(@, Len(line)),
                            !.total_chars = @ + Len(line)]
      marked == Markers(config, measured, trimmed)
  IN  IF line = "" THEN [measured EXCEPT !.blank_lines = @ + 1]
      ELSE IF s.in_multi_comment THEN InsideComment(config, marked, trimmed)
      ELSE ClassifyContent(config, marked, trimmed)

\* ClassifyLine with a blank line ending the multi-line comment it lies in
ClassifyLine_BlankEndsComment(config, s, line) ==
  LET trimmed == Trim(line)
      measured == [s EXCEPT !.max_line_length = MaxOf(@, Len(line)),
                            !.total_chars = @ + Len(line)]
      marked == Markers(config, measured, trimmed)
  IN  IF trimmed = "" THEN [measured EXCEPT !.blank_lines = @ + 1,
                                            !.in_multi_comment = FALSE]
      ELSE IF s.in_multi_comment THEN InsideComment(config, marked, trimmed)
      ELSE ClassifyContent(config, marked, trimmed)

\* one iteration of `for line in &lines`
ClassifyLine(config, s, line) ==
  LET trimmed == Trim(line)
      measured == [s EXCEPT !.max_line_length = MaxOf(@, Len(line)),
                            !.total_chars = @ + Len(line)]
      marked == Markers(config, measured, trimmed)
  IN  IF trimmed = "" THEN [measured EXCEPT !.blank_lines = @ + 1]
      ELSE IF s.in_multi_comment THEN InsideComment(config, marked, trimmed)
      ELSE ClassifyContent(config, marked, trimmed)

(***************************************************************************)
(* f64 values as exact rationals <<n, d>> in lowest terms, d > 0; <<0, 0>> *)
(* is the value a division by zero gives.                                  *)
(***************************************************************************)
RECURSIVE Gcd(_, _)
Gcd(a, b) == IF b = 0 THEN a ELSE Gcd(b, a % b)

Abs(a) == IF a < 0 THEN -a ELSE a

\* the value of a division by zero (NaN, or an infinity)
Undefined == <<0, 0>>

Rat(n, d) ==
  IF d = 0 THEN Undefined
  ELSE LET g == Gcd(Abs(n), Abs(d))
           sign == IF d < 0 THEN -1 ELSE 1
       IN  <<(sign * n) \div g, (sign * d) \div g>>

Zero == <<0, 1>>

RatAdd(a, b) == Rat(a[1] * b[2] + b[1] * a[2], a[2] * b[2])

RatMul(a, b) == Rat(a[1] * b[1], a[2] * b[2])

RatDiv(a, b) == Rat(a[1] * b[2], a[2] * b[1])

RatOfInt(n) == <<n, 1>>

RatLess(a, b) == a[1] * b[2] < b[1] * a[2]

\* f64::ln of the integers 1..40, in thousandths (rounded)
LnTable ==
  <<0, 693, 1099, 1386, 1609, 1792, 1946, 2079, 2197, 2303,
     2398, 2485, 2565, 2639, 2708, 2773, 2833, 2890, 2944, 2996,
     3045, 3091, 3135, 3178, 3219, 3258, 3296, 3332, 3367, 3401,
     3434, 3466, 3497, 3526, 3555, 3584, 3611, 3638, 3664, 3689>>

\* ln of a rational >= 1, in thousandths
LnMilli(r) == LnTable[r[1]] - LnTable[r[2]]

\* Option: None is <<>>, Some(v) is <<v>>
None == <<>>

Some(v) == <<v>>

get_language_name(extension) ==
  CASE extension = "rs" -> "Rust"
    [] extension = "py" -> "Python"
    [] extension = "php" -> "PHP"
    [] extension = "json" -> "JSON"
    [] extension = "yaml" -> "YAML"
    [] extension = "xml" -> "XML"
    [] extension = "sql" -> "SQL"
    [] extension = "rb" -> "Ruby"
    [] extension = "lua" -> "Lua"
    [] extension = "perl" -> "Perl"
    [] extension = "asm" -> "Assembly"
    [] extension = "ini" -> "Config"
    [] OTHER -> "Unknown (" \o extension \o ")"

\* MaintainabilityIndex without `.max(0.0).min(100.0)`
MaintainabilityIndex_Unclamped(s, total_lines, cyclomatic_complexity) ==
  IF s.code_lines > 0 /\ total_lines > 0
  THEN LET volume == MaxOf(LnTable[total_lines * 2], 1000)
           complexity_factor ==
             LnMilli(IF RatLess(cyclomatic_complexity, <<1, 1>>)
                     THEN <<1, 1>> ELSE cyclomatic_complexity)
           comment_factor ==
             IF s.comment_lines > 0
             THEN LET f == (s.comment_lines * 50000) \div total_lines
                  IN  IF f < 50000 THEN f ELSE 50000
             ELSE 0
           test_factor == IF s.test_indicators > 0 THEN 5000 ELSE 0
           doc_factor == IF s.doc_indicators > 0 THEN 3000 ELSE 0
           base_score == 171000 - (52 * volume) \div 10
                                - (23 * complexity_factor) \div 100
                                + comment_factor + test_factor + doc_factor
       IN  base_score
  ELSE 50000

\* MaintainabilityIndex giving 0.0, not 50.0, to a file without code lines
MaintainabilityIndex_ZeroDefault(s, total_lines, cyclomatic_complexity) ==
  IF s.code_lines > 0 /\ total_lines > 0
  THEN LET volume == MaxOf(LnTable[total_lines * 2], 1000)
           complexity_factor ==
             LnMilli(IF RatLess(cyclomatic_complexity, <<1, 1>>)
                     THEN <<1, 1>> ELSE cyclomatic_complexity)
           comment_factor ==
             IF s.comment_lines > 0
             THEN LET f == (s.comment_lines * 50000) \div total_lines
                  IN  IF f < 50000 THEN f ELSE 50000
             ELSE 0
           test_factor == IF s.test_indicators > 0 THEN 5000 ELSE 0
           doc_factor == IF s.doc_indicators > 0 THEN 3000 ELSE 0
           base_score == 171000 - (52 * volume) \div 10
                                - (23 * complexity_factor) \div 100
                                + comment_factor + test_factor + doc_factor
       IN  IF base_score < 0 THEN 0
           ELSE IF base_score > 100000 THEN 100000 ELSE base_score
  ELSE 0

\* the maintainability index, in thousandths
MaintainabilityIndex(s, total_lines, cyclomatic_complexity) ==
  IF s.code_lines > 0 /\ total_lines > 0
  THEN LET volume == MaxOf(LnTable[total_lines * 2], 1000)
           complexity_factor ==
             LnMilli(IF RatLess(cyclomatic_complexity, <<1, 1>>)
                     THEN <<1, 1>> ELSE cyclomatic_complexity)
           comment_factor ==
             IF s.comment_lines > 0
             THEN LET f == (s.comment_lines * 50000) \div total_lines
                  IN  IF f < 50000 THEN f ELSE 50000
             ELSE 0
           test_factor == IF s.test_indicators > 0 THEN 5000 ELSE 0
           doc_factor == IF s.doc_indicators > 0 THEN 3000 ELSE 0
           base_score == 171000 - (52 * volume) \div 10
                                - (23 * complexity_factor) \div 100
                                + comment_factor + test_factor + doc_factor
       IN  IF base_score < 0 THEN 0
           ELSE IF base_score > 100000 THEN 100000 ELSE base_score
  ELSE 50000

\* Derive dividing without testing the divisor
Derive_Unguarded(path, extension, file_size, total_lines, s) ==
  LET avg_line_length ==
        Rat(s.total_chars, total_lines)
      complexity_score ==
        Rat(s.complexity_score, 100 * s.code_lines)
      cyclomatic_complexity ==
        Rat(s.cyclomatic_complexity + s.functions, s.functions)
      maintainability_index ==
        Rat(MaintainabilityIndex(s, total_lines, cyclomatic_complexity), 1000)
      technical_debt_ratio ==
        Rat((s.todos + s.fixmes) * 100, total_lines)
      Percentage(n) == IF total_lines > 0 THEN Rat(n * 100, total_lines) ELSE Zero
  IN  [lang_stats |->
         [total_lines |-> total_lines,
          code_lines |-> s.code_lines,
          comment_lines |-> s.comment_lines,
          blank_lines |-> s.blank_lines,
          files |-> 1,
          total_size |-> file_size,
          avg_line_length |-> avg_line_length,
          max_line_length |-> s.max_line_length,
          complexity_score |-> complexity_score,
          functions |-> s.functions,
          classes |-> s.classes,
          imports |-> s.imports,
          todos |-> s.todos,
          fixmes |-> s.fixmes,
          code_percentage |-> Percentage(s.code_lines),
          comment_percentage |-> Percentage(s.comment_lines),
          blank_percentage |-> Percentage(s.blank_lines),
          cyclomatic_complexity |-> cyclomatic_complexity,
          maintainability_index |-> maintainability_index],
       file_info |->
         [path |-> path,
          language |-> get_language_name(extension),
          lines |-> total_lines,
          size |-> file_size,
          encoding |-> "UTF-8",
          complexity |-> complexity_score,
          todos |-> s.todos,
          fixmes |-> s.fixmes,
          cyclomatic_complexity |-> cyclomatic_complexity,
          maintainability_index |-> maintainability_index,
          technical_debt_ratio |-> technical_debt_ratio]]

\* what analyze_file_advanced returns after the loop: (lang_stats, file_info).
\* --encoding and --time-analysis are off: encoding is "UTF-8", created and
\* modified are None.
Derive(path, extension, file_size, total_lines, s) ==
  LET avg_line_length ==
        IF total_lines > 0 THEN Rat(s.total_chars, total_lines) ELSE Zero
      complexity_score ==
        IF s.code_lines > 0 THEN Rat(s.complexity_score, 100 * s.code_lines) ELSE Zero
      cyclomatic_complexity ==
        IF s.functions > 0
        THEN Rat(s.cyclomatic_complexity + s.functions, s.functions)
        ELSE <<1, 1>>
      maintainability_index ==
        Rat(MaintainabilityIndex(s, total_lines, cyclomatic_complexity), 1000)
      technical_debt_ratio ==
        IF total_lines > 0 THEN Rat((s.todos + s.fixmes) * 100, total_lines) ELSE Zero
      Percentage(n) == IF total_lines > 0 THEN Rat(n * 100, total_lines) ELSE Zero
  IN  [lang_stats |->
         [total_lines |-> total_lines,
          code_lines |-> s.code_lines,
          comment_lines |-> s.comment_lines,
          blank_lines |-> s.blank_lines,
          files |-> 1,
          total_size |-> file_size,
          avg_line_length |-> avg_line_length,
          max_line_length |-> s.max_line_length,
          complexity_score |-> complexity_score,
          functions |-> s.functions,
          classes |-> s.classes,
          imports |-> s.imports,
          todos |-> s.todos,
          fixmes |-> s.fixmes,
          code_percentage |-> Percentage(s.code_lines),
          comment_percentage |-> Percentage(s.comment_lines),
          blank_percentage |-> Percentage(s.blank_lines),
          cyclomatic_complexity |-> cyclomatic_complexity,
          maintainability_index |-> maintainability_index],
       file_info |->
         [path |-> path,
          language |-> get_language_name(extension),
          lines |-> total_lines,
          size |-> file_size,
          encoding |-> "UTF-8",
          complexity |-> complexity_score,
          todos |-> s.todos,
          fixmes |-> s.fixmes,
          cyclomatic_complexity |-> cyclomatic_complexity,
          maintainability_index |-> maintainability_index,
          technical_debt_ratio |-> technical_debt_ratio]]

\* metadata.len() of a file holding these lines, each ended by a newline
RECURSIVE FileSize(_)
FileSize(lines) ==
  IF lines = <<>> THEN 0 ELSE Len(Head(lines)) + 1 + FileSize(Tail(lines))

(***************************************************************************)
(* The lines a file is made of: blank lines, plain code, and for each      *)
(* marker of the rule the ways it can sit in a line.                       *)
(***************************************************************************)
Lines(config) ==
  LET singles == {config.single_line_comments[k] :
                    k \in 1..Len(config.single_line_comments)}
      first_single == {config.single_line_comments[k] :
                    k \in {k \in {1} : k <= Len(config.single_line_comments)}}
      pairs == {config.multi_line_comments[k] :
                    k \in 1..Len(config.multi_line_comments)}
  IN  {"", " ", "x = 1"}
      \cup {m \o " comment" : m \in singles}
      \cup {"x = 1  " \o m \o " trailing" : m \in first_single}
      \cup {p[1] \o " c" : p \in pairs}
      \cup {"c " \o p[2] : p \in pairs}
      \cup {p[1] \o " c " \o p[2] : p \in pairs}
      \cup {"x " \o p[1] \o " c" : p \in pairs}
      \cup {"c " \o p[2] \o " x" : p \in pairs}
      \cup {pq[1][1] \o " " \o pq[2][1] \o " c" :
              pq \in {pq \in pairs \X pairs : pq[1] # pq[2]}}

(***************************************************************************)
(* State.                                                                  *)
(***************************************************************************)
VARIABLES
  \* one file under analyze_file_advanced
  rule,      \* the rule (extension, or "simple") the file is scanned with
  content,   \* the lines of the file: content.lines()
  pos,       \* per invocation of analyze_file_advanced: lines scanned so far
  scan,      \* per invocation: the locals of the line loop
  result,    \* per invocation: the returned Option<(LanguageStats, FileInfo)>
  \* a run of main
  files,                  \* the collected files, in discovery order
  pending,                \* the indices of files no worker has taken yet
  worker,                 \* per thread: where it is in the closure, and on which file
  analysed,               \* per taken file: its file_result
  languages,              \* DashMap<String, LanguageStats>
  shard_of,               \* the shard each language key hashes to
  shard_lock,             \* per shard of languages: the thread holding its write lock
  files_info,             \* DashMap<usize, FileInfo>
  total_bytes_processed,  \* AtomicU64
  processed_count,        \* AtomicUsize
  merged,                 \* history: the files merged into languages so far
  main_pc,                \* where the main thread is
  final_languages,        \* HashMap<String, LanguageStats>, once collected
  final_files_info,       \* Vec<FileInfo>, once collected
  hotspots,               \* Vec<FileInfo>: the hotspots, once detected
  quality_metrics         \* Option<QualityMetrics>, once calculated

scanVars == <<rule, content, pos, scan, result>>

runVars == <<files, pending, worker, analysed, languages, shard_of, shard_lock,
             files_info, total_bytes_processed, processed_count, merged,
             main_pc, final_languages, final_files_info>>

postVars == <<hotspots, quality_metrics>>

vars == <<scanVars, runVars, postVars>>

\* the invocations of analyze_file_advanced over one content
Invocations == {"first", "second"}

Workers == 1..NumWorkers

Shards == 0..(NumShards - 1)

\* the empty map
EmptyMap == [k \in {} |-> 0]

\* map with key k set to v
Insert(map, k, v) == [x \in DOMAIN map \cup {k} |-> IF x = k THEN v ELSE map[x]]

\* the sum of field f of map[k] over the keys k of `keys`
RECURSIVE SumField(_, _, _)
SumField(map, keys, f) ==
  IF keys = {} THEN 0
  ELSE LET k == CHOOSE k \in keys : TRUE
       IN  map[k][f] + SumField(map, keys \ {k}, f)

(***************************************************************************)
(* Spec: one invocation scans a file that is read line by line.            *)
(***************************************************************************)
\* no run of main is under way
NoRun ==
  /\ files = <<>>
  /\ pending = {}
  /\ worker = [w \in Workers |-> [pc |-> "idle", index |-> 0, occupied |-> FALSE]]
  /\ analysed = EmptyMap
  /\ languages = EmptyMap
  /\ shard_of = EmptyMap
  /\ shard_lock = [sh \in Shards |-> 0]
  /\ files_info = EmptyMap
  /\ total_bytes_processed = 0
  /\ processed_count = 0
  /\ merged = {}
  /\ main_pc = "idle"
  /\ final_languages = EmptyMap
  /\ final_files_info = <<>>
  /\ hotspots = <<>>
  /\ quality_metrics = None

Init ==
  /\ rule \in Rules
  /\ content = <<>>
  /\ pos = [i \in Invocations |-> 0]
  /\ scan = [i \in Invocations |-> ScanInit]
  /\ result = [i \in Invocations |-> None]
  /\ NoRun

\* ScanLine with in_multi_comment and multi_comment_end kept in one place
\* shared by all invocations instead of in locals
ScanLine_SharedCarry(i, line) ==
  LET after == ClassifyLine(RuleOf(rule), scan[i], line)
  IN  /\ result[i] = None
      /\ scan' = [j \in Invocations |->
                    IF j = i THEN after
                    ELSE [scan[j] EXCEPT
                            !.in_multi_comment = after.in_multi_comment,
                            !.multi_comment_end = after.multi_comment_end]]
      /\ pos' = [pos EXCEPT ![i] = @ + 1]
      /\ UNCHANGED <<rule, result, runVars, postVars>>

\* invocation i runs one iteration of the line loop, on `line`
ScanLine(i, line) ==
  /\ result[i] = None
  /\ scan' = [scan EXCEPT ![i] = ClassifyLine(RuleOf(rule), scan[i], line)]
  /\ pos' = [pos EXCEPT ![i] = @ + 1]
  /\ UNCHANGED <<rule, result, runVars, postVars>>

\* the next line of the file is `line`, and the first invocation scans it
FeedScan ==
  \E line \in Lines(RuleOf(rule)) :
    /\ Len(content) < MaxLines
    /\ pos["first"] = Len(content)
    /\ content' = Append(content, line)
    /\ ScanLine("first", line)

\* the loop of invocation i is over: the derived values and the record
Finish(i) ==
  /\ result[i] = None
  /\ pos[i] = Len(content)
  /\ result' = [result EXCEPT ![i] =
                  Some(Derive("file", rule, FileSize(content), Len(content), scan[i]))]
  /\ UNCHANGED <<rule, content, pos, scan, runVars, postVars>>

Next == FeedScan \/ Finish("first")

Spec == Init /\ [][Next]_vars

(***************************************************************************)
(* SpecTwice: two invocations scan the same content with the same rule, in *)
(* any interleaving (two workers of the parallel loop given equal files).  *)
(***************************************************************************)
BoundedSeq(S, n) == UNION {[1..k -> S] : k \in 0..n}

InitTwice ==
  /\ rule \in Rules
  /\ content \in BoundedSeq(Lines(RuleOf(rule)), MaxLinesTwice)
  /\ pos = [i \in Invocations |-> 0]
  /\ scan = [i \in Invocations |-> ScanInit]
  /\ result = [i \in Invocations |-> None]
  /\ NoRun

\* invocation i scans its next line
Scan(i) ==
  /\ pos[i] < Len(content)
  /\ ScanLine(i, content[pos[i] + 1])
  /\ UNCHANGED content

NextTwice == \E i \in Invocations : Scan(i) \/ Finish(i)

SpecTwice == InitTwice /\ [][NextTwice]_vars

(***************************************************************************)
(* SpecMerge: a run of main (loco.rs).  The threads of the pool take the   *)
(* files in any order; each analyses its file and merges the record into   *)
(* `languages`; the main thread goes on when the parallel loop is over.    *)
(* The run is without --fast, --include-unknown, --time-analysis, and with *)
(* --hotspots.                                                             *)
(***************************************************************************)
Args == [fast |-> FALSE, include_unknown |-> FALSE, time_analysis |-> FALSE,
         hotspots |-> TRUE]

\* the files a run may meet; a run collects the first NumFiles of them, and
\* more of the same when NumFiles is larger
FilePool ==
  << [path |-> "src/a.rs", ext |-> "rs", lines |-> <<"x = 1">>],
     [path |-> "tests/test_b.py", ext |-> "py", lines |-> <<"# comment", "x = 1">>],
     [path |-> "docs/c.rs", ext |-> "rs", lines |-> <<"/* c", "c */", "">>],
     [path |-> "src/d.py", ext |-> "py", lines |-> <<"", "", "x = 1", "x = 1">>] >>

CollectedFiles ==
  [i \in 1..NumFiles |-> FilePool[((i - 1) % Len(FilePool)) + 1]]

LanguagesOf(fs) == {get_language_name(fs[i].ext) : i \in 1..Len(fs)}

\* the line loop over a whole file
RECURSIVE ScanAll(_, _, _)
ScanAll(config, s, lines) ==
  IF lines = <<>> THEN s
  ELSE ScanAll(config, ClassifyLine(config, s, Head(lines)), Tail(lines))

\* analyze_file_advanced of a file; an unreadable file (metadata, read or
\* UTF-8 failure) gives None
analyze_file_advanced(path, extension, config, lines, readable) ==
  IF readable
  THEN Some(Derive(path, extension, FileSize(lines), Len(lines),
                   ScanAll(config, ScanInit, lines)))
  ELSE None

\* file_result of the closure, full analysis mode
FileResult(index, readable) ==
  LET file == files[index]
  IN  IF file.ext \in Extensions
      THEN analyze_file_advanced(index, file.ext, get_config(file.ext),
                                 file.lines, readable)
      ELSE IF Args.include_unknown
      THEN analyze_file_advanced(index, file.ext, get_simple_config,
                                 file.lines, readable)
      ELSE None

\* AndModify without `entry.blank_lines += file_stats.blank_lines`
AndModify_BlankNotAdded(entry, file_stats) ==
  LET new_files == entry.files + 1
      old_count == new_files - 1
      Average(old_avg, value) ==
        IF old_count > 0
        THEN RatDiv(RatAdd(RatMul(old_avg, RatOfInt(old_count)), value),
                    RatOfInt(new_files))
        ELSE value
      total_lines == entry.total_lines + file_stats.total_lines
      code_lines == entry.code_lines + file_stats.code_lines
      comment_lines == entry.comment_lines + file_stats.comment_lines
      blank_lines == entry.blank_lines
  IN  [total_lines |-> total_lines,
       code_lines |-> code_lines,
       comment_lines |-> comment_lines,
       blank_lines |-> blank_lines,
       files |-> new_files,
       total_size |-> entry.total_size + file_stats.total_size,
       avg_line_length |-> Average(entry.avg_line_length, file_stats.avg_line_length),
       max_line_length |-> MaxOf(entry.max_line_length, file_stats.max_line_length),
       complexity_score |-> Average(entry.complexity_score, file_stats.complexity_score),
       functions |-> entry.functions + file_stats.functions,
       classes |-> entry.classes + file_stats.classes,
       imports |-> entry.imports + file_stats.imports,
       todos |-> entry.todos + file_stats.todos,
       fixmes |-> entry.fixmes + file_stats.fixmes,
       code_percentage |->
         IF total_lines > 0 THEN Rat(code_lines * 100, total_lines)
         ELSE entry.code_percentage,
       comment_percentage |->
         IF total_lines > 0 THEN Rat(comment_lines * 100, total_lines)
         ELSE entry.comment_percentage,
       blank_percentage |->
         IF total_lines > 0 THEN Rat(blank_lines * 100, total_lines)
         ELSE entry.blank_percentage,
       cyclomatic_complexity |->
         Average(entry.cyclomatic_complexity, file_stats.cyclomatic_complexity),
       maintainability_index |->
         Average(entry.maintainability_index, file_stats.maintainability_index)]

\* AndModify without `entry.files += 1`
AndModify_FilesNotCounted(entry, file_stats) ==
  LET new_files == entry.files
      old_count == new_files - 1
      Average(old_avg, value) ==
        IF old_count > 0
        THEN RatDiv(RatAdd(RatMul(old_avg, RatOfInt(old_count)), value),
                    RatOfInt(new_files))
        ELSE value
      total_lines == entry.total_lines + file_stats.total_lines
      code_lines == entry.code_lines + file_stats.code_lines
      comment_lines == entry.comment_lines + file_stats.comment_lines
      blank_lines == entry.blank_lines + file_stats.blank_lines
  IN  [total_lines |-> total_lines,
       code_lines |-> code_lines,
       comment_lines |-> comment_lines,
       blank_lines |-> blank_lines,
       files |-> new_files,
       total_size |-> entry.total_size + file_stats.total_size,
       avg_line_length |-> Average(entry.avg_line_length, file_stats.avg_line_length),
       max_line_length |-> MaxOf(entry.max_line_length, file_stats.max_line_length),
       complexity_score |-> Average(entry.complexity_score, file_stats.complexity_score),
       functions |-> entry.functions + file_stats.functions,
       classes |-> entry.classes + file_stats.classes,
       imports |-> entry.imports + file_stats.imports,
       todos |-> entry.todos + file_stats.todos,
       fixmes |-> entry.fixmes + file_stats.fixmes,
       code_percentage |->
         IF total_lines > 0 THEN Rat(code_lines * 100, total_lines)
         ELSE entry.code_percentage,
       comment_percentage |->
         IF total_lines > 0 THEN Rat(comment_lines * 100, total_lines)
         ELSE entry.comment_percentage,
       blank_percentage |->
         IF total_lines > 0 THEN Rat(blank_lines * 100, total_lines)
         ELSE entry.blank_percentage,
       cyclomatic_complexity |->
         Average(entry.cyclomatic_complexity, file_stats.cyclomatic_complexity),
       maintainability_index |->
         Average(entry.maintainability_index, file_stats.maintainability_index)]

\* AndModify dividing the weighted sum by weight_old
AndModify_DividesByOldCount(entry, file_stats) ==
  LET new_files == entry.files + 1
      old_count == new_files - 1
      Average(old_avg, value) ==
        IF old_count > 0
        THEN RatDiv(RatAdd(RatMul(old_avg, RatOfInt(old_count)), value),
                    RatOfInt(old_count))
        ELSE value
      total_lines == entry.total_lines + file_stats.total_lines
      code_lines == entry.code_lines + file_stats.code_lines
      comment_lines == entry.comment_lines + file_stats.comment_lines
      blank_lines == entry.blank_lines + file_stats.blank_lines
  IN  [total_lines |-> total_lines,
       code_lines |-> code_lines,
       comment_lines |-> comment_lines,
       blank_lines |-> blank_lines,
       files |-> new_files,
       total_size |-> entry.total_size + file_stats.total_size,
       avg_line_length |-> Average(entry.avg_line_length, file_stats.avg_line_length),
       max_line_length |-> MaxOf(entry.max_line_length, file_stats.max_line_length),
       complexity_score |-> Average(entry.complexity_score, file_stats.complexity_score),
       functions |-> entry.functions + file_stats.functions,
       classes |-> entry.classes + file_stats.classes,
       imports |-> entry.imports + file_stats.imports,
       todos |-> entry.todos + file_stats.todos,
       fixmes |-> entry.fixmes + file_stats.fixmes,
       code_percentage |->
         IF total_lines > 0 THEN Rat(code_lines * 100, total_lines)
         ELSE entry.code_percentage,
       comment_percentage |->
         IF total_lines > 0 THEN Rat(comment_lines * 100, total_lines)
         ELSE entry.comment_percentage,
       blank_percentage |->
         IF total_lines > 0 THEN Rat(blank_lines * 100, total_lines)
         ELSE entry.blank_percentage,
       cyclomatic_complexity |->
         Average(entry.cyclomatic_complexity, file_stats.cyclomatic_complexity),
       maintainability_index |->
         Average(entry.maintainability_index, file_stats.maintainability_index)]

\* the closure of and_modify: file_stats merged into the entry of its language
AndModify(entry, file_stats) ==
  LET new_files == entry.files + 1
      old_count == new_files - 1
      Average(old_avg, value) ==
        IF old_count > 0
        THEN RatDiv(RatAdd(RatMul(old_avg, RatOfInt(old_count)), value),
                    RatOfInt(new_files))
        ELSE value
      total_lines == entry.total_lines + file_stats.total_lines
      code_lines == entry.code_lines + file_stats.code_lines
      comment_lines == entry.comment_lines + file_stats.comment_lines
      blank_lines == entry.blank_lines + file_stats.blank_lines
  IN  [total_lines |-> total_lines,
       code_lines |-> code_lines,
       comment_lines |-> comment_lines,
       blank_lines |-> blank_lines,
       files |-> new_files,
       total_size |-> entry.total_size + file_stats.total_size,
       avg_line_length |-> Average(entry.avg_line_length, file_stats.avg_line_length),
       max_line_length |-> MaxOf(entry.max_line_length, file_stats.max_line_length),
       complexity_score |-> Average(entry.complexity_score, file_stats.complexity_score),
       functions |-> entry.functions + file_stats.functions,
       classes |-> entry.classes + file_stats.classes,
       imports |-> entry.imports + file_stats.imports,
       todos |-> entry.todos + file_stats.todos,
       fixmes |-> entry.fixmes + file_stats.fixmes,
       code_percentage |->
         IF total_lines > 0 THEN Rat(code_lines * 100, total_lines)
         ELSE entry.code_percentage,
       comment_percentage |->
         IF total_lines > 0 THEN Rat(comment_lines * 100, total_lines)
         ELSE entry.comment_percentage,
       blank_percentage |->
         IF total_lines > 0 THEN Rat(blank_lines * 100, total_lines)
         ELSE entry.blank_percentage,
       cyclomatic_complexity |->
         Average(entry.cyclomatic_complexity, file_stats.cyclomatic_complexity),
       maintainability_index |->
         Average(entry.maintainability_index, file_stats.maintainability_index)]

InitMerge ==
  /\ rule = "rs"
  /\ content = <<>>
  /\ pos = [i \in Invocations |-> 0]
  /\ scan = [i \in Invocations |-> ScanInit]
  /\ result = [i \in Invocations |-> None]
  /\ files = CollectedFiles
  /\ pending = 1..NumFiles
  /\ worker = [w \in Workers |-> [pc |-> "idle", index |-> 0, occupied |-> FALSE]]
  /\ analysed = EmptyMap
  /\ languages = EmptyMap
  \* the hash of a key is not fixed by the program: any placement of the keys,
  \* up to the naming of the shards
  /\ shard_of \in {f \in [LanguagesOf(CollectedFiles) -> Shards] : f["Rust"] = 0}
  /\ shard_lock = [sh \in Shards |-> 0]
  /\ files_info = EmptyMap
  /\ total_bytes_processed = 0
  /\ processed_count = 0
  /\ merged = {}
  /\ main_pc = "par_iter"
  /\ final_languages = EmptyMap
  /\ final_files_info = <<>>
  /\ hotspots = <<>>
  /\ quality_metrics = None

FileStats(index) == analysed[index][1].lang_stats

FileInfoOf(index) == analysed[index][1].file_info

Language(index) == FileInfoOf(index).language

\* Analyse leaving an unreadable file among the files to take, to be tried again
Analyse_Retry(w, index, readable) ==
  /\ main_pc = "par_iter"
  /\ worker[w].pc = "idle"
  /\ index \in pending
  /\ pending' = IF FileResult(index, readable) = None THEN pending
               ELSE pending \ {index}
  /\ analysed' = Insert(analysed, index, FileResult(index, readable))
  /\ worker' = [worker EXCEPT ![w] =
        [pc |-> IF FileResult(index, readable) = None THEN "count" ELSE "entry",
         index |-> index, occupied |-> FALSE]]
  /\ UNCHANGED <<scanVars, postVars, files, languages, shard_of, shard_lock, files_info,
                 total_bytes_processed, processed_count, merged, main_pc,
                 final_languages, final_files_info>>

\* thread w takes file `index` and analyses it: file_result
Analyse(w, index, readable) ==
  /\ main_pc = "par_iter"
  /\ worker[w].pc = "idle"
  /\ index \in pending
  /\ pending' = pending \ {index}
  /\ analysed' = Insert(analysed, index, FileResult(index, readable))
  /\ worker' = [worker EXCEPT ![w] =
        [pc |-> IF FileResult(index, readable) = None THEN "count" ELSE "entry",
         index |-> index, occupied |-> FALSE]]
  /\ UNCHANGED <<scanVars, postVars, files, languages, shard_of, shard_lock, files_info,
                 total_bytes_processed, processed_count, merged, main_pc,
                 final_languages, final_files_info>>

\* Entry taking the write lock whatever threads hold it
Entry_NoLock(w) ==
  LET key == Language(worker[w].index)
  IN  /\ worker[w].pc = "entry"
      /\ shard_lock' = [shard_lock EXCEPT ![shard_of[key]] = w]
      /\ worker' = [worker EXCEPT ![w].pc = "modify",
                                  ![w].occupied = key \in DOMAIN languages]
      /\ UNCHANGED <<scanVars, postVars, files, pending, analysed, languages, shard_of,
                     files_info, total_bytes_processed, processed_count, merged,
                     main_pc, final_languages, final_files_info>>

\* Entry on a map with one lock for all its shards
Entry_OneLock(w) ==
  LET key == Language(worker[w].index)
  IN  /\ worker[w].pc = "entry"
      /\ \A sh \in Shards : shard_lock[sh] = 0
      /\ shard_lock' = [shard_lock EXCEPT ![shard_of[key]] = w]
      /\ worker' = [worker EXCEPT ![w].pc = "modify",
                                  ![w].occupied = key \in DOMAIN languages]
      /\ UNCHANGED <<scanVars, postVars, files, pending, analysed, languages, shard_of,
                     files_info, total_bytes_processed, processed_count, merged,
                     main_pc, final_languages, final_files_info>>

\* languages.entry(language): thread w takes the write lock of the key's
\* shard, waiting while another thread holds it, and finds the entry
\* occupied or vacant
Entry(w) ==
  LET key == Language(worker[w].index)
  IN  /\ worker[w].pc = "entry"
      /\ shard_lock[shard_of[key]] = 0
      /\ shard_lock' = [shard_lock EXCEPT ![shard_of[key]] = w]
      /\ worker' = [worker EXCEPT ![w].pc = "modify",
                                  ![w].occupied = key \in DOMAIN languages]
      /\ UNCHANGED <<scanVars, postVars, files, pending, analysed, languages, shard_of,
                     files_info, total_bytes_processed, processed_count, merged,
                     main_pc, final_languages, final_files_info>>

\* .and_modify(...).or_insert(file_stats), and the drop of the entry's lock
ModifyOrInsert(w) ==
  LET index == worker[w].index
      key == Language(index)
  IN  /\ worker[w].pc = "modify"
      /\ languages' =
           IF worker[w].occupied
           THEN [languages EXCEPT ![key] = AndModify(@, FileStats(index))]
           ELSE Insert(languages, key, FileStats(index))
      /\ merged' = merged \cup {index}
      /\ shard_lock' = [shard_lock EXCEPT ![shard_of[key]] = 0]
      /\ worker' = [worker EXCEPT ![w].pc = "store"]
      /\ UNCHANGED <<scanVars, postVars, files, pending, analysed, shard_of, files_info,
                     total_bytes_processed, processed_count, main_pc,
                     final_languages, final_files_info>>

\* files_info.insert(index, file_info.clone())
StoreInfo(w) ==
  /\ worker[w].pc = "store"
  /\ files_info' = Insert(files_info, worker[w].index, FileInfoOf(worker[w].index))
  /\ worker' = [worker EXCEPT ![w].pc = "bytes"]
  /\ UNCHANGED <<scanVars, postVars, files, pending, analysed, languages, shard_of,
                 shard_lock, total_bytes_processed, processed_count, merged,
                 main_pc, final_languages, final_files_info>>

\* total_bytes_processed.fetch_add(file_info.size)
AddBytes(w) ==
  /\ worker[w].pc = "bytes"
  /\ total_bytes_processed' = total_bytes_processed + FileInfoOf(worker[w].index).size
  /\ worker' = [worker EXCEPT ![w].pc = "count"]
  /\ UNCHANGED <<scanVars, postVars, files, pending, analysed, languages, shard_of,
                 shard_lock, files_info, processed_count, merged, main_pc,
                 final_languages, final_files_info>>

\* processed_count.fetch_add(1): the closure is over for this file
CountProcessed(w) ==
  /\ worker[w].pc = "count"
  /\ processed_count' = processed_count + 1
  /\ worker' = [worker EXCEPT ![w] = [pc |-> "idle", index |-> 0, occupied |-> FALSE]]
  /\ UNCHANGED <<scanVars, postVars, files, pending, analysed, languages, shard_of,
                 shard_lock, files_info, total_bytes_processed, merged, main_pc,
                 final_languages, final_files_info>>

\* the orders in which a map's values may come out of into_iter
Orders(map) ==
  {order \in [1..Cardinality(DOMAIN map) -> DOMAIN map] :
     \A a, b \in 1..Cardinality(DOMAIN map) : a # b => order[a] # order[b]}

\* Collect without waiting for the parallel loop
Collect_NoJoin ==
  /\ main_pc = "par_iter"
  /\ main_pc' = "hotspots"
  /\ final_languages' = languages
  /\ \E order \in Orders(files_info) :
       final_files_info' = [k \in DOMAIN order |-> files_info[order[k]]]
  /\ UNCHANGED <<scanVars, postVars, files, pending, worker, analysed, languages, shard_of,
                 shard_lock, files_info, total_bytes_processed, processed_count,
                 merged>>

\* for_each returns when every file has been through the closure; the maps
\* are then turned into final_languages and final_files_info
Collect ==
  /\ main_pc = "par_iter"
  /\ pending = {}
  /\ \A w \in Workers : worker[w].pc = "idle"
  /\ main_pc' = "hotspots"
  /\ final_languages' = languages
  /\ \E order \in Orders(files_info) :
       final_files_info' = [k \in DOMAIN order |-> files_info[order[k]]]
  /\ UNCHANGED <<scanVars, postVars, files, pending, worker, analysed, languages, shard_of,
                 shard_lock, files_info, total_bytes_processed, processed_count,
                 merged>>

(***************************************************************************)
(* detect_hotspots_improved.  risk_score is kept in tenths (3.0 is 30).    *)
(***************************************************************************)
\* the files kept as hotspots at most: hotspots.truncate(15)
HotspotLimit == 15

\* the least risk_score of a hotspot, in tenths: risk_score >= 3.0
RiskCutoff == 30

\* slice::sort_by (and sort_unstable, on keys alone): the elements of seq in
\* the order of their keys, elements of equal keys in the order of seq.  The
\* place of an element is one more than the number of elements that are
\* sorted before it.
SortBy(seq, key) ==
  CHOOSE sorted \in
    UNION {{[p \in DOMAIN w[1] |-> w[1][CHOOSE k \in DOMAIN w[1] : place[k] = p]] :
              place \in {pl \in {[k \in DOMAIN w[1] |->
                             1 + Cardinality({j \in DOMAIN w[1] :
                                                \/ RatLess(w[2][j], w[2][k])
                                                \/ w[2][j] = w[2][k] /\ j < k})]} :
                           pl = pl}} :
             w \in {v \in {<<seq, key>>} : v = v}} : TRUE

\* -a
RatNeg(a) == <<-a[1], a[2]>>

RatMax(a, b) == IF RatLess(a, b) THEN b ELSE a

\* the percentile index rounded up to the next element
PercentileIndex_RoundedUp(n) == (n * 90 + 99) \div 100

\* the index of the median in place of the 90th percentile
PercentileIndex_Median(n) == (n * 50) \div 100

\* lines.len() * 90 / 100: the 0-based index of the 90th percentile among n
\* sorted values
PercentileIndex(n) == (n * 90) \div 100

\* the thresholds of a population: 90th percentiles, with their floors
Thresholds(file_infos) ==
  LET lines == SortBy([k \in DOMAIN file_infos |-> file_infos[k].lines],
                      [k \in DOMAIN file_infos |-> RatOfInt(file_infos[k].lines)])
      sorted_complexities ==
        SortBy([k \in DOMAIN file_infos |-> file_infos[k].complexity],
               [k \in DOMAIN file_infos |-> file_infos[k].complexity])
      lines_90th == lines[PercentileIndex(Len(lines)) + 1]
      complexity_90th ==
        sorted_complexities[PercentileIndex(Len(sorted_complexities)) + 1]
  IN  [large_file_threshold |-> MaxOf(300, lines_90th),
       high_complexity_threshold |-> RatMax(complexity_90th, <<15, 100>>),
       high_todos_threshold |-> 5,
       large_size_threshold |-> 100 * 1024]

\* risk_score of the filter_map closure, in tenths
RiskScore(file, t) ==
    (IF file.lines > t.large_file_threshold THEN 30 ELSE 0)
  + (IF file.lines > t.large_file_threshold * 2 THEN 20 ELSE 0)
  + (IF RatLess(t.high_complexity_threshold, file.complexity) THEN 40 ELSE 0)
  + (IF RatLess(RatMul(t.high_complexity_threshold, <<2, 1>>), file.complexity)
     THEN 20 ELSE 0)
  + (IF file.todos >= t.high_todos_threshold THEN 30 ELSE 0)
  + (IF file.todos >= t.high_todos_threshold * 2 THEN 10 ELSE 0)
  + (IF file.size > t.large_size_threshold THEN 15 ELSE 0)
  + (IF /\ RatLess(file.maintainability_index, <<40, 1>>)
        /\ RatLess(Zero, file.maintainability_index) THEN 25 ELSE 0)
  + (IF /\ RatLess(file.maintainability_index, <<20, 1>>)
        /\ RatLess(Zero, file.maintainability_index) THEN 15 ELSE 0)
  + (IF RatLess(<<8, 1>>, file.technical_debt_ratio) THEN 20 ELSE 0)
  + (IF RatLess(<<5, 1>>, file.cyclomatic_complexity) THEN 15 ELSE 0)

\* risk_a / risk_b of the comparator of hotspots.sort_by
RankScore(a) ==
  RatAdd(RatMul(a.complexity, <<200, 1>>),
  RatAdd(Rat(a.lines, 20),
  RatAdd(Rat(a.size, 5000),
  RatAdd(RatOfInt(a.todos * 10),
  RatAdd(RatMul(a.technical_debt_ratio, <<5, 1>>),
  RatAdd(IF RatLess(Zero, a.maintainability_index)
         THEN RatAdd(<<100, 1>>, RatNeg(a.maintainability_index))
         ELSE Zero,
         RatMul(a.cyclomatic_complexity, <<10, 1>>)))))))

\* the files the filter_map closure keeps, in the order of file_infos
Retained(file_infos) ==
  CHOOSE kept \in
    {SelectSeq(file_infos, LAMBDA file : RiskScore(file, t) >= RiskCutoff) :
       t \in {Thresholds(file_infos)}} : TRUE

\* detect_hotspots_improved without `hotspots.truncate(15)`
detect_hotspots_NoTruncate(file_infos) ==
  IF file_infos = <<>> THEN <<>>
  ELSE LET retained == Retained(file_infos)
       IN  SortBy(retained,
                  [k \in DOMAIN retained |-> RatNeg(RankScore(retained[k]))])

detect_hotspots_improved(file_infos) ==
  IF file_infos = <<>> THEN <<>>
  ELSE LET retained == Retained(file_infos)
           \* risk_b.partial_cmp(&risk_a): by descending risk
           sorted == SortBy(retained,
                            [k \in DOMAIN retained |-> RatNeg(RankScore(retained[k]))])
       IN  IF Len(sorted) > HotspotLimit THEN SubSeq(sorted, 1, HotspotLimit)
           ELSE sorted

\* detect_hotspots_improved(&final_files_info) is called (--hotspots)
DetectHotspots ==
  /\ main_pc = "hotspots"
  /\ main_pc' = "quality"
  /\ hotspots' = detect_hotspots_improved(final_files_info)
  /\ UNCHANGED <<scanVars, quality_metrics, files, pending, worker, analysed,
                 languages, shard_of, shard_lock, files_info,
                 total_bytes_processed, processed_count, merged,
                 final_languages, final_files_info>>

(***************************************************************************)
(* calculate_quality_metrics_improved.                                     *)
(***************************************************************************)
\* char::to_lowercase of the ASCII letters
LowerOf ==
  [c \in {SubSeq(UpperLetters, i, i) : i \in 1..Len(UpperLetters)} |->
     LET i == CHOOSE i \in 1..Len(UpperLetters) : SubSeq(UpperLetters, i, i) = c
     IN  SubSeq(LowerLetters, i, i)]

RECURSIVE ToLowercase(_)
\* str::to_lowercase
ToLowercase(s) ==
  IF Len(s) = 0 THEN s
  ELSE (IF SubSeq(s, 1, 1) \in DOMAIN LowerOf THEN LowerOf[SubSeq(s, 1, 1)]
        ELSE SubSeq(s, 1, 1)) \o ToLowercase(SubSeq(s, 2, Len(s)))

\* str::ends_with(suffix)
EndsWith(s, suffix) ==
  /\ Len(s) >= Len(suffix)
  /\ SubSeq(s, Len(s) - Len(suffix) + 1, Len(s)) = suffix

\* Path::file_name: what follows the last separator
FileName(path) ==
  LET slashes == {i \in 1..Len(path) : SubSeq(path, i, i) = "/"}
  IN  IF slashes = {} THEN path
      ELSE SliceFrom(path, CHOOSE i \in slashes : \A j \in slashes : j <= i)

\* the path of the file a FileInfo is about
PathOf(file) == files[file.path].path

\* the filter closure of test_files
IsTestFile(file) ==
  LET path_str == ToLowercase(PathOf(file))
      file_name == ToLowercase(FileName(PathOf(file)))
  IN  \/ Contains(path_str, "/test") \/ Contains(path_str, "\\test")
      \/ Contains(path_str, "/spec") \/ Contains(path_str, "\\spec")
      \/ Contains(path_str, "/__tests__") \/ Contains(path_str, "\\__tests__")
      \/ Contains(path_str, "/tests/") \/ Contains(path_str, "\\tests\\")
      \/ Find(file_name, "test_") = 0 \/ EndsWith(file_name, "_test.")
      \/ EndsWith(file_name, ".test.") \/ EndsWith(file_name, ".spec.")
      \/ /\ Contains(file_name, "test")
         /\ \/ EndsWith(file_name, ".py") \/ EndsWith(file_name, ".js")
            \/ EndsWith(file_name, ".ts")

\* the filter closure of doc_files
IsDocFile(file) ==
  LET path_str == ToLowercase(PathOf(file))
      file_name == ToLowercase(FileName(PathOf(file)))
  IN  \/ EndsWith(file_name, ".md") \/ EndsWith(file_name, ".rst")
      \/ /\ EndsWith(file_name, ".txt")
         /\ (Contains(file_name, "readme") \/ Contains(file_name, "doc"))
      \/ Contains(path_str, "/docs/") \/ Contains(path_str, "\\docs\\")
      \/ Contains(path_str, "/doc/") \/ Contains(path_str, "\\doc\\")
      \/ file_name = "readme" \/ Find(file_name, "readme.") = 0

\* f64::min: the other operand when one is NaN
RatMin(a, b) ==
  IF a = Undefined THEN b
  ELSE IF b = Undefined THEN a
  ELSE IF RatLess(b, a) THEN b ELSE a

\* the sum of the values of a function over `keys`
RECURSIVE RatSumOver(_, _)
RatSumOver(f, keys) ==
  IF keys = {} THEN Zero
  ELSE LET k == CHOOSE k \in keys : TRUE
       IN  RatAdd(f[k], RatSumOver(f, keys \ {k}))

\* `as u64` of a non-negative f64: the integer part (0 for NaN)
AsU64(a) == IF a = Undefined THEN 0 ELSE a[1] \div a[2]

\* the number of elements in each bucket, from the buckets of the elements: the HashMap<u64, usize> of
\* the duplication estimate
Groups(buckets) ==
  [bucket \in {buckets[k] : k \in DOMAIN buckets} |->
     Cardinality({k \in DOMAIN buckets : buckets[k] = bucket})]

\* the sum of the counts above `least`, as f64
Suspicious(groups, least) ==
  RatSumOver([bucket \in DOMAIN groups |-> RatOfInt(groups[bucket])],
             {bucket \in DOMAIN groups : groups[bucket] > least})

\* QualityMetrics with every metric 0.0
ZeroMetrics ==
  [overall_maintainability |-> Zero,
   technical_debt_ratio |-> Zero,
   test_coverage_estimate |-> Zero,
   documentation_ratio |-> Zero,
   code_duplication_ratio |-> Zero]

\* the metrics calculate_quality_metrics_improved computes past its early
\* return
ComputedMetrics(stats) ==
  LET languages_len == RatOfInt(Cardinality(DOMAIN stats.languages))
      total_files == RatOfInt(stats.total_files)
      total_lines == RatOfInt(stats.total_lines)
      langs == DOMAIN stats.languages
      rated == {l \in langs : RatLess(Zero, stats.languages[l].maintainability_index)}
      total_weighted_maintainability ==
        RatSumOver([l \in langs |->
                      RatMul(stats.languages[l].maintainability_index,
                             RatOfInt(stats.languages[l].total_lines))], rated)
      total_maintainability_lines == SumField(stats.languages, rated, "total_lines")
      avg_complexity ==
        RatDiv(RatSumOver([l \in langs |-> stats.languages[l].complexity_score], langs),
               languages_len)
      avg_comment_ratio ==
        RatDiv(RatSumOver([l \in langs |-> stats.languages[l].comment_percentage], langs),
               languages_len)
      overall_maintainability ==
        IF total_maintainability_lines > 0
        THEN RatDiv(total_weighted_maintainability, RatOfInt(total_maintainability_lines))
        ELSE RatAdd(<<60, 1>>,
               RatAdd(RatMul(avg_comment_ratio, <<1, 2>>),
                      RatNeg(RatMul(avg_complexity, <<20, 1>>))))
      total_todos == SumField(stats.languages, langs, "todos")
      total_fixmes == SumField(stats.languages, langs, "fixmes")
      total_code_lines == SumField(stats.languages, langs, "code_lines")
      technical_debt_ratio ==
        IF total_code_lines > 0
        THEN Rat((total_todos + total_fixmes) * 100, total_code_lines)
        ELSE Zero
      test_files ==
        Cardinality({k \in DOMAIN stats.files_info : IsTestFile(stats.files_info[k])})
      test_coverage_estimate ==
        IF RatLess(Zero, total_files)
        THEN LET test_ratio == RatDiv(RatOfInt(test_files), total_files)
                 base_coverage == RatMin(RatMul(test_ratio, <<60, 1>>), <<75, 1>>)
                 boost == IF test_files > 0
                          THEN IF RatLess(<<60, 1>>, overall_maintainability)
                               THEN <<15, 1>> ELSE <<5, 1>>
                          ELSE Zero
             IN  RatMin(RatAdd(base_coverage, boost), <<100, 1>>)
        ELSE Zero
      total_comments == SumField(stats.languages, langs, "comment_lines")
      documentation_ratio ==
        IF RatLess(Zero, total_lines)
        THEN LET comment_ratio ==
                   RatMul(RatDiv(RatOfInt(total_comments), total_lines), <<100, 1>>)
                 doc_files ==
                   Cardinality({k \in DOMAIN stats.files_info :
                                  IsDocFile(stats.files_info[k])})
                 doc_bonus ==
                   IF doc_files > 0
                   THEN RatMin(RatMul(RatDiv(RatOfInt(doc_files), total_files),
                                      <<20, 1>>), <<15, 1>>)
                   ELSE Zero
                 lang_doc_bonus ==
                   RatSumOver(
                     [l \in langs |->
                        IF Contains(l, "Rust") /\ stats.languages[l].comment_lines > 0
                        THEN <<2, 1>>
                        ELSE IF /\ Contains(l, "Python")
                                /\ stats.languages[l].comment_lines > 0
                        THEN <<3, 2>>
                        ELSE IF Contains(l, "JavaScript") \/ Contains(l, "TypeScript")
                        THEN <<1, 1>>
                        ELSE Zero], langs)
             IN  RatMin(RatAdd(comment_ratio, RatAdd(doc_bonus, lang_doc_bonus)),
                        <<100, 1>>)
        ELSE Zero
      files_len == RatOfInt(Len(stats.files_info))
      code_duplication_ratio ==
        IF Len(stats.files_info) > 10
        THEN LET SizeBucket(file) == (file.lines \div 50) * 50
                 ComplexityBucket(file) ==
                   (AsU64(RatMul(file.complexity, <<100, 1>>)) \div 10) * 10
                 size_groups ==
                   Groups([k \in DOMAIN stats.files_info |->
                             SizeBucket(stats.files_info[k])])
                 complexity_groups ==
                   Groups([k \in DOMAIN stats.files_info |->
                             ComplexityBucket(stats.files_info[k])])
                 size_suspicion ==
                   RatMul(RatDiv(Suspicious(size_groups, 3), files_len), <<15, 1>>)
                 complexity_suspicion ==
                   RatMul(RatDiv(Suspicious(complexity_groups, 5), files_len),
                          <<10, 1>>)
                 avg_functions_per_line ==
                   RatDiv(RatSumOver(
                            [l \in langs |->
                               Rat(stats.languages[l].functions,
                                   stats.languages[l].total_lines)],
                            {l \in langs : stats.languages[l].total_lines > 0}),
                          languages_len)
                 pattern_suspicion ==
                   IF RatLess(avg_functions_per_line, <<5, 1000>>) THEN <<5, 1>> ELSE Zero
             IN  RatMin(RatAdd(size_suspicion,
                               RatAdd(complexity_suspicion, pattern_suspicion)),
                        <<30, 1>>)
        ELSE Zero
  IN  [overall_maintainability |-> overall_maintainability,
       technical_debt_ratio |-> technical_debt_ratio,
       test_coverage_estimate |-> test_coverage_estimate,
       documentation_ratio |-> documentation_ratio,
       code_duplication_ratio |-> code_duplication_ratio]

\* calculate_quality_metrics_improved without the early return on no files
\* or no lines
calculate_quality_metrics_NoGuard(stats) == ComputedMetrics(stats)

calculate_quality_metrics_improved(stats) ==
  IF stats.total_files = 0 \/ stats.total_lines = 0 THEN ZeroMetrics
  ELSE ComputedMetrics(stats)

\* the ProjectStats that main hands to calculate_quality_metrics_improved
QualityInput ==
  [languages |-> final_languages,
   total_files |-> SumField(final_languages, DOMAIN final_languages, "files"),
   total_lines |-> SumField(final_languages, DOMAIN final_languages, "total_lines"),
   total_size |-> SumField(final_languages, DOMAIN final_languages, "total_size"),
   files_info |-> final_files_info]

\* calculate_quality_metrics_improved is called on the final maps
QualityMetrics ==
  /\ main_pc = "quality"
  /\ main_pc' = "done"
  /\ quality_metrics' = Some(calculate_quality_metrics_improved(QualityInput))
  /\ UNCHANGED <<scanVars, hotspots, files, pending, worker, analysed, languages,
                 shard_of, shard_lock, files_info, total_bytes_processed,
                 processed_count, merged, final_languages, final_files_info>>

NextMerge ==
  \/ \E w \in Workers, index \in 1..NumFiles, readable \in BOOLEAN :
       Analyse(w, index, readable)
  \/ \E w \in Workers : Entry(w)
  \/ \E w \in Workers : ModifyOrInsert(w)
  \/ \E w \in Workers : StoreInfo(w)
  \/ \E w \in Workers : AddBytes(w)
  \/ \E w \in Workers : CountProcessed(w)
  \/ Collect
  \/ DetectHotspots
  \/ QualityMetrics

SpecMerge == InitMerge /\ [][NextMerge]_vars

(***************************************************************************)
(* Vocabulary of the properties.                                           *)
(***************************************************************************)
\* the record invocation i returned
Stats(i) == result[i][1].lang_stats

Returned(i) == result[i] # None

IsBlank(line) == Trim(line) = ""

StartsWith(s, prefix) ==
  Len(s) >= Len(prefix) /\ SubSeq(s, 1, Len(prefix)) = prefix

\* every line of `lines` lies inside one comment of `pair`: the first line
\* begins with the start marker, the last line ends with the terminator, and
\* the terminator occurs nowhere before
EnclosedBy(pair, lines) ==
  LET n == Len(lines)
      Inner(k) == IF k = 1 THEN SliceFrom(Trim(lines[1]), Len(pair[1]))
                  ELSE Trim(lines[k])
  IN  /\ n >= 1
      /\ StartsWith(Trim(lines[1]), pair[1])
      /\ \A k \in 1..(n - 1) : ~Contains(Inner(k), pair[2])
      /\ Find(Inner(n), pair[2]) # -1
      /\ Find(Inner(n), pair[2]) = Len(Inner(n)) - Len(pair[2])

\* the 1-based position of `pair` among the multi-line pairs of config
PairIndex(config, pair) ==
  CHOOSE k \in 1..Len(config.multi_line_comments) : config.multi_line_comments[k] = pair

PairsOf(config) ==
  {config.multi_line_comments[k] : k \in 1..Len(config.multi_line_comments)}

\* `pair` is the first configured pair whose start marker occurs in `line`
FirstStartIn(config, pair, line) ==
  FirstContained(line, [k \in 1..Len(config.multi_line_comments) |->
                          config.multi_line_comments[k][1]])
    = PairIndex(config, pair)

(***************************************************************************)
(* C1.  Every per-file record of analyze_file_advanced satisfies           *)
(* code_lines + comment_lines + blank_lines = total_lines: every line is   *)
(* counted in exactly one of the three classes.                            *)
(***************************************************************************)
C1_LinesPartition ==
  \A i \in Invocations :
    Returned(i) =>
      Stats(i).code_lines + Stats(i).comment_lines + Stats(i).blank_lines
        = Stats(i).total_lines

(***************************************************************************)
(* C2.  With the rule whose only marker is "#", the lines "# comment", "", *)
(* "x = 1  # trailing" give total_lines = 3, blank_lines = 1,              *)
(* comment_lines = 1 and code_lines = 1: the line with a trailing comment  *)
(* counts once, as code.                                                   *)
(***************************************************************************)
C2_TrailingCommentExample ==
  \A i \in Invocations :
    (/\ Returned(i)
     /\ rule = "yaml"
     /\ content = <<"# comment", "", "x = 1  # trailing">>)
    => /\ Stats(i).total_lines = 3
       /\ Stats(i).blank_lines = 1
       /\ Stats(i).comment_lines = 1
       /\ Stats(i).code_lines = 1

(***************************************************************************)
(* C8.  As claimed: a file of which every line lies inside one multi-line  *)
(* comment, opened on the first line and closed on the last, has           *)
(* comment_lines = total_lines and code_lines = 0, for every rule.         *)
(***************************************************************************)
C8_EnclosedAllComment ==
  \A i \in Invocations : \A pair \in PairsOf(RuleOf(rule)) :
    (Returned(i) /\ EnclosedBy(pair, content))
    => /\ Stats(i).comment_lines = Stats(i).total_lines
       /\ Stats(i).code_lines = 0

(***************************************************************************)
(* C8, amended.  A file of which every line lies inside one multi-line     *)
(* comment, opened on the first line by the first configured pair whose    *)
(* start marker occurs in that line and closed on the last, has            *)
(* comment_lines = total_lines - blank_lines and code_lines = 0: the blank *)
(* lines inside the comment count as blank.                                *)
(***************************************************************************)
C8_EnclosedCommentOrBlank ==
  \A i \in Invocations : \A pair \in PairsOf(RuleOf(rule)) :
    (/\ Returned(i)
     /\ EnclosedBy(pair, content)
     /\ FirstStartIn(RuleOf(rule), pair, Trim(content[1])))
    => /\ Stats(i).comment_lines = Stats(i).total_lines - Stats(i).blank_lines
       /\ Stats(i).blank_lines = Cardinality({k \in 1..Len(content) : IsBlank(content[k])})
       /\ Stats(i).code_lines = 0

\* a returned record of a three-line comment with a blank line in the middle
C8_Witness ==
  \E pair \in PairsOf(RuleOf(rule)) :
    /\ Returned("first")
    /\ Len(content) = 3
    /\ EnclosedBy(pair, content)
    /\ FirstStartIn(RuleOf(rule), pair, Trim(content[1]))
    /\ IsBlank(content[2])
    /\ Stats("first").comment_lines = 2

(***************************************************************************)
(* C9.  A file of N lines that are all blank has total_lines =             *)
(* blank_lines = N and code_lines = comment_lines = 0, for every rule.     *)
(***************************************************************************)
C9_AllBlank ==
  \A i \in Invocations :
    (Returned(i) /\ \A k \in 1..Len(content) : IsBlank(content[k]))
    => /\ Stats(i).total_lines = Len(content)
       /\ Stats(i).blank_lines = Len(content)
       /\ Stats(i).code_lines = 0
       /\ Stats(i).comment_lines = 0

\* a returned record of two blank lines, one empty and one of whitespace
C9_Witness ==
  /\ Returned("first")
  /\ Len(content) >= 2
  /\ \A k \in 1..Len(content) : IsBlank(content[k])
  /\ \E k \in 1..Len(content) : content[k] # ""
  /\ \E k \in 1..Len(content) : content[k] = ""
  /\ Stats("first").blank_lines = Len(content)

AdditiveFields ==
  {"total_lines", "code_lines", "comment_lines", "blank_lines", "files",
   "total_size", "functions", "classes", "imports", "todos", "fixmes"}

AveragedFields ==
  {"avg_line_length", "complexity_score", "maintainability_index",
   "cyclomatic_complexity"}

\* the lang_stats of the analysed files that gave a record
StatsOf == [i \in {i \in DOMAIN analysed : analysed[i] # None} |-> FileStats(i)]

\* the files merged so far whose language is `key`
MergedInto(key) == {i \in merged : Language(i) = key}

\* sum over the files of `indices` of total_lines * (field f), a rational
RECURSIVE WeightedSum(_, _)
WeightedSum(indices, f) ==
  IF indices = {} THEN Zero
  ELSE LET i == CHOOSE i \in indices : TRUE
       IN  RatAdd(RatMul(RatOfInt(StatsOf[i].total_lines), StatsOf[i][f]),
                  WeightedSum(indices \ {i}, f))

\* the aggregate after merging the files of `order` one after the other
RECURSIVE SequentialMerge(_)
SequentialMerge(order) ==
  IF Len(order) = 1 THEN StatsOf[order[1]]
  ELSE CHOOSE after \in
         {AndModify(entry, StatsOf[order[Len(order)]]) :
            entry \in {SequentialMerge(SubSeq(order, 1, Len(order) - 1))}} : TRUE

\* the orders of the elements of a set
OrdersOf(S) ==
  {order \in [1..Cardinality(S) -> S] :
     \A a, b \in 1..Cardinality(S) : a # b => order[a] # order[b]}

LoopOver == main_pc \in {"hotspots", "quality", "done"}

(***************************************************************************)
(* C3.  For each additive field the sum over all language aggregates       *)
(* equals the sum over the per-file records merged so far, in every        *)
(* interleaving; and once the parallel loop is over every record has been  *)
(* merged, so the sums over the final map equal the sums over all records. *)
(***************************************************************************)
C3_AdditiveSums ==
  /\ \A f \in AdditiveFields :
       SumField(languages, DOMAIN languages, f) = SumField(StatsOf, merged, f)
  /\ LoopOver =>
       /\ merged = DOMAIN StatsOf
       /\ DOMAIN analysed = 1..NumFiles
       /\ \A f \in AdditiveFields :
            SumField(final_languages, DOMAIN final_languages, f)
              = SumField(StatsOf, DOMAIN StatsOf, f)

\* the run is over, with every file merged and two of them into one language
C3_Witness ==
  /\ main_pc = "done"
  /\ merged = 1..NumFiles
  /\ \E key \in DOMAIN final_languages : final_languages[key].files >= 2
  /\ Cardinality(DOMAIN final_languages) >= 2

(***************************************************************************)
(* C4.  After every merge each averaged field of a language aggregate      *)
(* equals the lines-weighted mean (weights: total_lines) of the per-file   *)
(* values merged so far for that language.                                 *)
(***************************************************************************)
C4_LinesWeightedMean ==
  \A key \in DOMAIN languages : \A f \in AveragedFields :
    languages[key].total_lines > 0 =>
      languages[key][f]
        = RatDiv(WeightedSum(MergedInto(key), f), RatOfInt(languages[key].total_lines))

(***************************************************************************)
(* C5.  Merges into one language key serialize: no two threads are inside  *)
(* the entry of one key at once, a key is in the map exactly when a record *)
(* was merged into it, and its aggregate is the one some sequential order  *)
(* of the merged records gives (one record inserted, the others added; no  *)
(* update lost).                                                           *)
(***************************************************************************)
C5_SameKeySerialized ==
  /\ \A w1, w2 \in Workers :
       (/\ w1 # w2
        /\ worker[w1].pc = "modify"
        /\ worker[w2].pc = "modify")
       => Language(worker[w1].index) # Language(worker[w2].index)
  /\ \A key \in LanguagesOf(files) :
       /\ key \in DOMAIN languages <=> MergedInto(key) # {}
       /\ key \in DOMAIN languages =>
            /\ languages[key].files = Cardinality(MergedInto(key))
            /\ \E order \in OrdersOf(MergedInto(key)) :
                 languages[key] = SequentialMerge(order)

\* a thread is inserting the first record of a language while another waits
\* to merge a record of the same language
C5_Witness ==
  \E w1, w2 \in Workers :
    /\ worker[w1].pc = "modify"
    /\ ~worker[w1].occupied
    /\ worker[w2].pc = "entry"
    /\ Language(worker[w1].index) = Language(worker[w2].index)

C7_Barrier ==
  LoopOver =>
    /\ pending = {}
    /\ \A w \in Workers : worker[w].pc = "idle"
    /\ processed_count = NumFiles
    /\ merged = DOMAIN StatsOf
    /\ final_languages = languages
    /\ \A key \in DOMAIN final_languages :
         final_languages[key].files = Cardinality(MergedInto(key))
    /\ Len(final_files_info) = Cardinality(merged)
    /\ {final_files_info[k].path : k \in 1..Len(final_files_info)} = merged
    /\ \A k \in 1..Len(final_files_info) :
         final_files_info[k] = FileInfoOf(final_files_info[k].path)

\* the post-pass has run on the records of at least two files
C7_Witness ==
  /\ main_pc = "done"
  /\ Len(final_files_info) >= 2
  /\ processed_count = NumFiles

(***************************************************************************)
(* Vocabulary of the properties of the classifier, continued.              *)
(***************************************************************************)
\* the file_info of the record invocation i returned
Info(i) == result[i][1].file_info

\* a multi-line pair whose terminator is empty or equal to its start marker
Malformed(pair) == pair[2] = "" \/ pair[2] = pair[1]

\* invocation i has just run the loop body on the line it was at
Scanned(i) == pos'[i] = pos[i] + 1

\* the line invocation i has just scanned
ScannedLine(i) == content'[pos'[i]]

\* the lines counted in one of the three classes
Counted(s) == s.code_lines + s.comment_lines + s.blank_lines

(***************************************************************************)
(* C11.  A rule with a multi-line pair whose terminator is empty or equal  *)
(* to its start marker is rejected before any line is scanned: with such a *)
(* rule no line is scanned and no record returned, and the terminator a    *)
(* scan carries while inside a comment is never that of such a pair.       *)
(***************************************************************************)
C11_MalformedRuleRejected ==
  \A i \in Invocations :
    /\ (\E pair \in PairsOf(RuleOf(rule)) : Malformed(pair))
         => (pos[i] = 0 /\ result[i] = None)
    /\ scan[i].in_multi_comment =>
         /\ scan[i].multi_comment_end # ""
         /\ \A pair \in PairsOf(RuleOf(rule)) :
              pair[2] = scan[i].multi_comment_end => ~Malformed(pair)

(***************************************************************************)
(* C13.  As claimed: a zero-length file gives a record in which every      *)
(* count and every derived metric is 0.                                    *)
(***************************************************************************)
C13_ZeroLengthAllZero ==
  \A i \in Invocations :
    (Returned(i) /\ content = <<>>)
    => /\ \A f \in {"total_lines", "code_lines", "comment_lines", "blank_lines",
                    "functions", "classes", "imports", "todos", "fixmes"} :
            Stats(i)[f] = 0
       /\ \A f \in {"avg_line_length", "complexity_score", "cyclomatic_complexity",
                    "maintainability_index"} :
            Stats(i)[f] = Zero
       /\ Info(i).technical_debt_ratio = Zero
       /\ Info(i).cyclomatic_complexity = Zero
       /\ Info(i).maintainability_index = Zero

(***************************************************************************)
(* C13, amended.  A zero-length file gives a record without error, in      *)
(* which every line count and every keyword, todo and fixme count is 0,    *)
(* the average line length, the complexity score, the technical-debt ratio *)
(* and the percentages are 0, the cyclomatic complexity is 1 and the       *)
(* maintainability index is 50.                                            *)
(***************************************************************************)
C13_ZeroLengthRecord ==
  \A i \in Invocations :
    (pos[i] = 0 /\ content = <<>>)
    => /\ ENABLED Finish(i) \/ Returned(i)
       /\ Returned(i) =>
            /\ \A f \in {"total_lines", "code_lines", "comment_lines", "blank_lines",
                         "functions", "classes", "imports", "todos", "fixmes",
                         "max_line_length", "total_size"} :
                 Stats(i)[f] = 0
            /\ \A f \in {"avg_line_length", "complexity_score", "code_percentage",
                         "comment_percentage", "blank_percentage"} :
                 Stats(i)[f] = Zero
            /\ Stats(i).cyclomatic_complexity = <<1, 1>>
            /\ Stats(i).maintainability_index = <<50, 1>>
            /\ Info(i).lines = 0
            /\ Info(i).size = 0
            /\ Info(i).todos = 0
            /\ Info(i).fixmes = 0
            /\ Info(i).complexity = Zero
            /\ Info(i).technical_debt_ratio = Zero
            /\ Info(i).cyclomatic_complexity = <<1, 1>>
            /\ Info(i).maintainability_index = <<50, 1>>

\* the record of a zero-length file has been returned
C13_Witness ==
  /\ content = <<>>
  /\ Returned("first")
  /\ Stats("first").total_lines = 0
  /\ Stats("first").files = 1

(***************************************************************************)
(* C18.  The maintainability index of every per-file record lies in        *)
(* [0, 100], in lang_stats and in file_info, files without code lines      *)
(* included.                                                               *)
(***************************************************************************)
C18_MaintainabilityInRange ==
  \A i \in Invocations :
    Returned(i) =>
      /\ ~RatLess(Stats(i).maintainability_index, Zero)
      /\ ~RatLess(<<100, 1>>, Stats(i).maintainability_index)
      /\ Info(i).maintainability_index = Stats(i).maintainability_index

\* the record of a file with code lines whose index the clamp holds at 100
C18_Witness ==
  /\ Returned("first")
  /\ Stats("first").code_lines > 0
  /\ Stats("first").comment_lines > 0
  /\ Stats("first").maintainability_index = <<100, 1>>

C20_ClosingLineCountedOnce ==
  [][\A i \in Invocations :
       LET line == Trim(ScannedLine(i))
           end == scan[i].multi_comment_end
           end_pos == Find(line, end)
           remainder == Trim(SliceFrom(line, end_pos + Len(end)))
       IN  (/\ Scanned(i)
            /\ scan[i].in_multi_comment
            /\ ~IsBlank(ScannedLine(i))
            /\ end_pos # -1)
           => /\ Counted(scan'[i]) = Counted(scan[i]) + 1
              /\ remainder = "" =>
                   /\ scan'[i].comment_lines = scan[i].comment_lines + 1
                   /\ ~scan'[i].in_multi_comment
              /\ remainder # "" =>
                   scan'[i].comment_lines = scan[i].comment_lines]_vars

(***************************************************************************)
(* C12.  An unreadable file gives no record: it is taken once and never    *)
(* offered again, it is in no aggregate and in no file list, and the       *)
(* other files of the run are all analysed and merged.                     *)
(***************************************************************************)
C12_UnreadableSkipped ==
  /\ \A index \in DOMAIN analysed :
       /\ index \notin pending
       /\ analysed[index] = None =>
            /\ index \notin merged
            /\ index \notin DOMAIN files_info
            /\ \A k \in 1..Len(final_files_info) : final_files_info[k].path # index
  /\ merged \subseteq DOMAIN StatsOf
  /\ SumField(languages, DOMAIN languages, "files") = Cardinality(merged)
  /\ LoopOver =>
       /\ DOMAIN analysed = 1..NumFiles
       /\ merged = DOMAIN StatsOf
       /\ DOMAIN files_info = DOMAIN StatsOf
       /\ processed_count = NumFiles
       /\ SumField(final_languages, DOMAIN final_languages, "files")
            = Cardinality(DOMAIN StatsOf)

\* the run is over; one file was unreadable and the others are merged
C12_Witness ==
  /\ main_pc = "done"
  /\ \E index \in DOMAIN analysed : analysed[index] = None
  /\ Cardinality(merged) = NumFiles - 1
  /\ Len(final_files_info) = NumFiles - 1

(***************************************************************************)
(* Vocabulary of the properties of the line scan outside a comment.        *)
(***************************************************************************)
\* invocation i has just scanned a non-blank line outside a multi-line comment
ScannedNormal(i) ==
  Scanned(i) /\ ~scan[i].in_multi_comment /\ ~IsBlank(ScannedLine(i))

\* the start markers of the multi-line pairs of config, in configured order
StartsOf(config) ==
  [k \in 1..Len(config.multi_line_comments) |-> config.multi_line_comments[k][1]]

\* the 1-based position of the first configured pair whose start marker
\* occurs in line, 0 when none does
WinningPair(config, line) == FirstContained(line, StartsOf(config))

\* what a line holds around the start marker of `pair`
Around(line, pair) ==
  LET start_pos == Find(line, pair[1])
      tail == SliceFrom(line, start_pos + Len(pair[1]))
      end_pos == Find(tail, pair[2])
  IN  [before |-> Trim(SliceTo(line, start_pos)),
       closed |-> end_pos # -1,
       after |-> IF end_pos # -1 THEN Trim(SliceFrom(tail, end_pos + Len(pair[2])))
                 ELSE ""]

\* the locals that count lines are those of s but for `class`, one higher
CountedAs(after, s, class) ==
  /\ after.code_lines = s.code_lines + (IF class = "code" THEN 1 ELSE 0)
  /\ after.comment_lines = s.comment_lines + (IF class = "comment" THEN 1 ELSE 0)
  /\ after.blank_lines = s.blank_lines

(***************************************************************************)
(* C21.  Outside a comment the multi-line start markers are tried in       *)
(* configured order, and the first configured pair whose start marker      *)
(* occurs anywhere in the line wins, not the marker that occurs leftmost:  *)
(* it is the terminator of that pair the scan carries when the comment     *)
(* stays open.  When the text before that marker is not empty the line is  *)
(* counted as exactly one code line.                                       *)
(***************************************************************************)
C21_FirstConfiguredPairWins ==
  [][\A i \in Invocations :
       LET config == RuleOf(rule)
           line == Trim(ScannedLine(i))
           m == WinningPair(config, line)
           pair == config.multi_line_comments[m]
           around == Around(line, pair)
       IN  (ScannedNormal(i) /\ m # 0)
           => /\ around.before # "" => CountedAs(scan'[i], scan[i], "code")
              /\ around.closed => ~scan'[i].in_multi_comment
              /\ ~around.closed =>
                   /\ scan'[i].in_multi_comment
                   /\ scan'[i].multi_comment_end = pair[2]]_vars

\* the one line scanned holds the start markers of two pairs, the pair
\* configured first not leftmost: it is a code line, and the scan carries
\* the terminator of the pair configured first
C21_Witness ==
  LET config == RuleOf(rule)
      line == Trim(content[1])
      m == WinningPair(config, line)
  IN  /\ pos["first"] = 1
      /\ m # 0
      /\ \E k \in 1..Len(config.multi_line_comments) :
           /\ Contains(line, config.multi_line_comments[k][1])
           /\ Find(line, config.multi_line_comments[k][1])
                < Find(line, config.multi_line_comments[m][1])
      /\ scan["first"].code_lines = 1
      /\ scan["first"].comment_lines = 0
      /\ scan["first"].in_multi_comment
      /\ scan["first"].multi_comment_end = config.multi_line_comments[m][2]

\* outside a comment, a line that begins with the start marker of `pair` is
\* a comment of its own when the terminator follows on the line (code when
\* text follows the terminator), and opens a comment of `pair` otherwise
BeginsComment(i, pair) ==
  LET around == Around(Trim(ScannedLine(i)), pair)
  IN  /\ around.closed =>
           /\ ~scan'[i].in_multi_comment
           /\ CountedAs(scan'[i], scan[i],
                        IF around.after = "" THEN "comment" ELSE "code")
      /\ ~around.closed =>
           /\ scan'[i].in_multi_comment
           /\ scan'[i].multi_comment_end = pair[2]
           /\ CountedAs(scan'[i], scan[i], "comment")

(***************************************************************************)
(* C22.  Outside a comment, for a line that begins with a multi-line start *)
(* marker: when the matching terminator appears later on the line the      *)
(* state stays Normal and the line is a comment if nothing follows the     *)
(* terminator and code otherwise; when it does not appear the state        *)
(* becomes InsideComment with the terminator of that same pair and the     *)
(* line is counted as a comment.                                           *)
(***************************************************************************)
C22_LineBeginningWithMarker ==
  [][\A i \in Invocations :
       \A pair \in PairsOf(RuleOf(rule)) :
         (ScannedNormal(i) /\ StartsWith(Trim(ScannedLine(i)), pair[1]))
         => BeginsComment(i, pair)]_vars

\* C22, amended: the same of a line that begins with the start marker of
\* the first configured pair whose start marker occurs in the line.
C22_LineBeginningWithWinningMarker ==
  [][\A i \in Invocations :
       \A pair \in PairsOf(RuleOf(rule)) :
         (/\ ScannedNormal(i)
          /\ StartsWith(Trim(ScannedLine(i)), pair[1])
          /\ FirstStartIn(RuleOf(rule), pair, Trim(ScannedLine(i))))
         => BeginsComment(i, pair)]_vars

\* the one line scanned begins with a start marker and does not hold the
\* terminator: it is a comment line and the scan carries the terminator
C22_Witness ==
  /\ pos["first"] = 1
  /\ \E pair \in PairsOf(RuleOf(rule)) :
       /\ StartsWith(Trim(content[1]), pair[1])
       /\ FirstStartIn(RuleOf(rule), pair, Trim(content[1]))
       /\ ~Around(Trim(content[1]), pair).closed
       /\ scan["first"].multi_comment_end = pair[2]
  /\ scan["first"].in_multi_comment
  /\ scan["first"].comment_lines = 1
  /\ scan["first"].code_lines = 0

(***************************************************************************)
(* SpecWords: one invocation scans a file whose lines hold keywords,       *)
(* braces and TODO/FIXME markers, in code, in comments and beside          *)
(* comments.                                                               *)
(***************************************************************************)
\* the rules of SpecWords: one pair and one marker (rs), two pairs whose
\* terminators equal their start markers (py), keywords without a trailing
\* space, two pairs and four markers (the fallback rule)
WordRules == {"rs", "py", "simple"}

\* the first keyword of a list
FirstOf(kws) == IF kws = <<>> THEN "" ELSE kws[1]

WordLines(config) ==
  LET function == FirstOf(config.function_keywords)
      class == FirstOf(config.class_keywords)
      import == FirstOf(config.import_keywords)
      branch == FirstOf(config.complexity_keywords)
      marker == FirstOf(config.single_line_comments)
      pair == config.multi_line_comments[1]
  IN  {"", "x = 1", "}", "debug()", "Todo x",
       function \o " f() {",
       branch \o " a " \o branch \o " b {",
       import \o " " \o class \o " S",
       marker \o " " \o branch \o " " \o function \o " { todo",
       branch \o " x { " \o pair[1] \o " c " \o pair[2],
       pair[1] \o " FIXME",
       marker \o " see " \o pair[1],
       "c " \o pair[2]}
      \cup {"x " \o config.multi_line_comments[k][1] \o " " \o pair[1] \o " c" :
              k \in 2..Len(config.multi_line_comments)}

InitWords ==
  /\ rule \in WordRules
  /\ content = <<>>
  /\ pos = [i \in Invocations |-> 0]
  /\ scan = [i \in Invocations |-> ScanInit]
  /\ result = [i \in Invocations |-> None]
  /\ NoRun

\* the next line of the file is `line`, and the first invocation scans it
FeedWords ==
  \E line \in WordLines(RuleOf(rule)) :
    /\ Len(content) < MaxLines
    /\ pos["first"] = Len(content)
    /\ content' = Append(content, line)
    /\ ScanLine("first", line)

NextWords == FeedWords \/ Finish("first")

SpecWords == InitWords /\ [][NextWords]_vars

\* the keyword counters, the complexity accumulators and the brace depth
KeywordLocals(s) ==
  <<s.functions, s.classes, s.imports, s.complexity_score,
    s.cyclomatic_complexity, s.nesting_level>>

\* the 1-based position of the first configured single-line marker that
\* occurs in line, 0 when none does
WinningMarker(config, line) == FirstContained(line, config.single_line_comments)

\* the text of line before the single-line marker k
BeforeMarker(config, line, k) ==
  Trim(SliceTo(line, Find(line, config.single_line_comments[k])))

(***************************************************************************)
(* C23.  Outside a comment, on a line that holds no multi-line start       *)
(* marker, the single-line markers are tried in configured order; when the *)
(* text before the first marker that matches is empty, the line is counted *)
(* as exactly one comment line and no code line, and no keyword counter,   *)
(* complexity accumulator or brace depth changes.                          *)
(***************************************************************************)
C23_CommentLineNotScanned ==
  [][\A i \in Invocations :
       LET config == RuleOf(rule)
           line == Trim(ScannedLine(i))
           k == WinningMarker(config, line)
       IN  (/\ ScannedNormal(i)
            /\ WinningPair(config, line) = 0
            /\ k # 0
            /\ BeforeMarker(config, line, k) = "")
           => /\ CountedAs(scan'[i], scan[i], "comment")
              /\ KeywordLocals(scan'[i]) = KeywordLocals(scan[i])
              /\ ~scan'[i].in_multi_comment]_vars

\* the one line scanned begins with a single-line marker and holds a
\* function keyword, a complexity keyword and a brace: it is a comment line
\* and nothing else is counted
C23_Witness ==
  LET config == RuleOf(rule)
  IN  /\ pos["first"] = 1
      /\ StartsWith(content[1], FirstOf(config.single_line_comments))
      /\ FirstContained(content[1], config.function_keywords) # 0
      /\ FirstContained(content[1], config.complexity_keywords) # 0
      /\ Contains(content[1], "{")
      /\ scan["first"].comment_lines = 1
      /\ scan["first"].code_lines = 0
      /\ KeywordLocals(scan["first"]) = KeywordLocals(ScanInit)

\* 1 when a keyword of kws occurs in line, 0 otherwise
Hit(line, kws) == IF FirstContained(line, kws) # 0 THEN 1 ELSE 0

\* invocation i has just counted the line it scanned as code
CountedCode(i) == scan'[i].code_lines > scan[i].code_lines

(***************************************************************************)
(* C24.  Each of the complexity, function, class and import counters goes  *)
(* up by at most 1 per line, and only on lines counted as code, so that    *)
(* none of them exceeds code_lines; and every line counted as code has had *)
(* its keyword lists scanned: outside a comment, each counter goes up by 1 *)
(* on a code line that holds a keyword of its list.                        *)
(***************************************************************************)
C24_KeywordsScannedOnCodeLines ==
  [][\A i \in Invocations :
       LET config == RuleOf(rule)
           line == Trim(ScannedLine(i))
           Step(f) == scan'[i][f] - scan[i][f]
           counters == {"cyclomatic_complexity", "functions", "classes", "imports"}
       IN  Scanned(i)
           => /\ \A f \in counters :
                   /\ Step(f) \in {0, 1}
                   /\ Step(f) = 1 => CountedCode(i)
                   /\ scan'[i][f] <= scan'[i].code_lines
              /\ (ScannedNormal(i) /\ CountedCode(i))
                   => /\ Step("cyclomatic_complexity") = Hit(line, config.complexity_keywords)
                      /\ Step("functions") = Hit(line, config.function_keywords)
                      /\ Step("classes") = Hit(line, config.class_keywords)
                      /\ Step("imports") = Hit(line, config.import_keywords)]_vars

(***************************************************************************)
(* C25.  todos is the number of non-blank lines that hold TODO in any case *)
(* and fixmes the number of non-blank lines that hold FIXME in any case,   *)
(* whether the line is code, a comment or inside a multi-line comment; no  *)
(* other text increments either counter.                                   *)
(***************************************************************************)
C25_TodoFixmeCounts ==
  \A i \in Invocations :
    LET Holding(word) ==
          {k \in 1..pos[i] :
             ~IsBlank(content[k]) /\ Contains(ToUppercase(Trim(content[k])), word)}
    IN  /\ scan[i].todos = Cardinality(Holding("TODO"))
        /\ scan[i].fixmes = Cardinality(Holding("FIXME"))

\* the non-blank lines among the first n whose upper-cased text holds one of
\* the words
LinesHolding(n, words) ==
  {k \in 1..n :
     /\ ~IsBlank(content[k])
     /\ \E line_upper \in {ToUppercase(Trim(content[k]))} :
          \E word \in words : Contains(line_upper, word)}

(***************************************************************************)
(* C25 (as the code has it).  todos is the number of non-blank lines that  *)
(* hold TODO in any case, and fixmes the number of non-blank lines that    *)
(* hold FIXME, HACK or BUG in any case (one per line, however many of the  *)
(* words it holds), whether the line is code, a comment or inside a        *)
(* multi-line comment.                                                     *)
(***************************************************************************)
C25_TodoFixmeHackBugCounts ==
  \A i \in Invocations :
    /\ scan[i].todos = Cardinality(LinesHolding(pos[i], {"TODO"}))
    /\ scan[i].fixmes = Cardinality(LinesHolding(pos[i], {"FIXME", "HACK", "BUG"}))

\* a scan that has counted a line holding BUG and no FIXME, and a FIXME inside
\* a multi-line comment
C25_Witness ==
  /\ scan["first"].in_multi_comment
  /\ LinesHolding(pos["first"], {"FIXME"}) # {}
  /\ LinesHolding(pos["first"], {"BUG"}) \ LinesHolding(pos["first"], {"FIXME"}) # {}
  /\ LinesHolding(pos["first"], {"TODO"}) # {}
  /\ scan["first"].fixmes >= 2
  /\ scan["first"].todos >= 1

(***************************************************************************)
(* C26.  The brace depth is the running sum, over the lines counted as     *)
(* code, of the count of `{` less the count of `}`; on each code line the  *)
(* complexity accumulator gains the nesting bonus (0.05) exactly when the  *)
(* depth after the line is positive; lines not counted as code leave the   *)
(* depth alone, and the depth may go below zero.                           *)
(***************************************************************************)
C26_BraceDepthOverCodeLines ==
  [][\A i \in Invocations :
       LET line == Trim(ScannedLine(i))
           bonus == (scan'[i].complexity_score - scan[i].complexity_score)
                    - 100 * (scan'[i].cyclomatic_complexity
                             - scan[i].cyclomatic_complexity)
       IN  /\ (ScannedNormal(i) /\ CountedCode(i))
                => /\ scan'[i].nesting_level =
                        scan[i].nesting_level + MatchCount(line, "{")
                                              - MatchCount(line, "}")
                   /\ bonus = IF scan'[i].nesting_level > 0 THEN 5 ELSE 0
           /\ (Scanned(i) /\ ~CountedCode(i))
                => /\ scan'[i].nesting_level = scan[i].nesting_level
                   /\ bonus = 0]_vars

(***************************************************************************)
(* C27.  The derived values never divide by zero: avg_line_length is 0     *)
(* when total_lines is 0, complexity_score is 0 when code_lines is 0,      *)
(* technical_debt_ratio is 0 when total_lines is 0, and the cyclomatic     *)
(* complexity is 1 when functions is 0 and (complexity hits + functions) / *)
(* functions, hence at least 1, otherwise.                                 *)
(***************************************************************************)
C27_DerivedValuesGuarded ==
  \A i \in Invocations :
    Returned(i)
    => LET stats == Stats(i)
           info == Info(i)
           s == scan[i]
       IN  /\ \A value \in {stats.avg_line_length, stats.complexity_score,
                              stats.cyclomatic_complexity, info.complexity,
                              info.cyclomatic_complexity, info.technical_debt_ratio} :
                 value # Undefined
           /\ stats.total_lines = 0 => stats.avg_line_length = Zero
           /\ stats.total_lines > 0
                => stats.avg_line_length = Rat(s.total_chars, stats.total_lines)
           /\ stats.code_lines = 0 => stats.complexity_score = Zero
           /\ stats.code_lines > 0
                => stats.complexity_score = Rat(s.complexity_score, 100 * stats.code_lines)
           /\ stats.total_lines = 0 => info.technical_debt_ratio = Zero
           /\ stats.total_lines > 0
                => info.technical_debt_ratio =
                     Rat((stats.todos + stats.fixmes) * 100, stats.total_lines)
           /\ stats.functions = 0 => stats.cyclomatic_complexity = <<1, 1>>
           /\ stats.functions > 0
                => stats.cyclomatic_complexity =
                     Rat(s.cyclomatic_complexity + stats.functions, stats.functions)
           /\ ~RatLess(stats.cyclomatic_complexity, <<1, 1>>)
           /\ info.complexity = stats.complexity_score
           /\ info.cyclomatic_complexity = stats.cyclomatic_complexity

\* the record of an empty file: every divisor is zero
C27_Witness ==
  /\ Returned("first")
  /\ Stats("first").total_lines = 0
  /\ Stats("first").code_lines = 0
  /\ Stats("first").functions = 0

\* the arithmetic mean of field f over the records of the files `indices`
Mean(indices, f) ==
  RatDiv(RatSumOver([i \in indices |-> StatsOf[i][f]], indices),
         RatOfInt(Cardinality(indices)))

(***************************************************************************)
(* C28.  The first record merged for a language creates the aggregate from *)
(* that record, with file count 1; after any interleaving of merges the    *)
(* file count of an aggregate is the number of records merged for its      *)
(* language; and when the loop is over the file counts of all aggregates   *)
(* sum to the number of stored per-file records.                           *)
(***************************************************************************)
C28_FileCountIsRecordsMerged ==
  /\ \A i \in merged : Language(i) \in DOMAIN languages
  /\ \A key \in DOMAIN languages :
       /\ languages[key].files = Cardinality(MergedInto(key))
       /\ languages[key].files >= 1
       /\ languages[key].files = 1
            => \E i \in MergedInto(key) : languages[key] = StatsOf[i]
  /\ LoopOver =>
       /\ SumField(final_languages, DOMAIN final_languages, "files")
            = Cardinality(DOMAIN files_info)
       /\ Len(final_files_info) = Cardinality(DOMAIN files_info)

\* the loop still running: one language has two records merged, the second
\* not yet stored in files_info, and another language has one
C28_Witness ==
  /\ main_pc = "par_iter"
  /\ \E key \in DOMAIN languages : languages[key].files = 2
  /\ \E key \in DOMAIN languages : languages[key].files = 1
  /\ \E w \in Workers : worker[w].pc = "store"
  /\ Cardinality(DOMAIN files_info) < Cardinality(merged)

(***************************************************************************)
(* C29.  Every merge after the first sets each averaged field to           *)
(* (old_avg * old_count + new_value) / new_count, new_count = old_count+1; *)
(* in exact arithmetic the field after k merges is the arithmetic mean of  *)
(* the k per-file values, whatever the order of the merges.                *)
(***************************************************************************)
C29_AveragedFieldIsMean ==
  /\ [](\A key \in DOMAIN languages : \A f \in AveragedFields :
          languages[key][f] = Mean(MergedInto(key), f))
  /\ [](\A order \in OrdersOf(DOMAIN StatsOf) : \A f \in AveragedFields :
          DOMAIN StatsOf # {}
          => SequentialMerge(order)[f] = Mean(DOMAIN StatsOf, f))
  /\ [][\A w \in Workers : \A f \in AveragedFields :
          (worker[w].pc = "modify" /\ worker'[w].pc = "store" /\ worker[w].occupied)
          => LET key == Language(worker[w].index)
                 old_count == languages[key].files
             IN  languages'[key][f] =
                   RatDiv(RatAdd(RatMul(languages[key][f], RatOfInt(old_count)),
                                 StatsOf[worker[w].index][f]),
                          RatOfInt(old_count + 1))]_vars

\* two records of differing averaged values merged into one language, and
\* three records of pairwise differing values analysed
C29_Witness ==
  /\ \E key \in DOMAIN languages :
       /\ languages[key].files = 2
       /\ \E i, j \in MergedInto(key) :
            \A f \in {"avg_line_length", "maintainability_index"} :
              StatsOf[i][f] # StatsOf[j][f]
  /\ Cardinality(DOMAIN StatsOf) >= 3
  /\ \A i, j \in DOMAIN StatsOf :
       i # j => StatsOf[i].avg_line_length # StatsOf[j].avg_line_length

(***************************************************************************)
(* SpecSimple: the simple counter (main.rs).  analyze_file reads one file  *)
(* and counts its lines as code, comment or blank with the comment markers *)
(* of get_language_config; an extension without a config has every line   *)
(* counted as code.  The file grows a line at a time and the first         *)
(* invocation scans each line as it arrives.                               *)
(***************************************************************************)
get_language_config(extension) ==
  CASE extension = "rs" ->
         Some([single_line_comments |-> <<"//">>,
               multi_line_comments |-> << <<"/*", "*/">> >>])
    [] extension = "py" ->
         Some([single_line_comments |-> <<"#">>,
               multi_line_comments |-> << <<"\"\"\"", "\"\"\"">>, <<"'''", "'''">> >>])
    [] extension = "php" ->
         Some([single_line_comments |-> <<"//", "#">>,
               multi_line_comments |-> << <<"/*", "*/">> >>])
    [] extension = "sh" ->
         Some([single_line_comments |-> <<"#">>, multi_line_comments |-> <<>>])
    [] OTHER -> None

get_language_from_extension(extension) ==
  CASE extension = "rs" -> "Rust"
    [] extension = "py" -> "Python"
    [] extension = "php" -> "PHP"
    [] extension = "sh" -> "Shell"
    [] extension = "md" -> "Markdown"
    [] OTHER -> "Unknown"

SimpleRules == {"rs", "py", "php", "sh", "md"}

\* the counters of LanguageStats::new() and the locals of the line loop
SimpleInit ==
  [code_lines |-> 0, comment_lines |-> 0, blank_lines |-> 0,
   in_multi_comment |-> FALSE, multi_comment_end |-> ""]

\* the loop over config.multi_line_comments: the counters and is_comment
\* after it
SimpleMultiLineStart(config, s, line_content, is_comment) ==
  LET k == FirstContained(line_content, StartsOf(config))
      start == config.multi_line_comments[k][1]
      end == config.multi_line_comments[k][2]
      start_pos == Find(line_content, start)
      before_comment == Trim(SliceTo(line_content, start_pos))
      rest == SliceFrom(line_content, start_pos + Len(start))
      end_pos == Find(rest, end)
      after_comment == Trim(SliceFrom(rest, end_pos + Len(end)))
  IN  IF k = 0 THEN [s |-> s, is_comment |-> is_comment]
      ELSE IF before_comment # ""
      THEN [s |-> [s EXCEPT !.code_lines = @ + 1], is_comment |-> is_comment]
      ELSE IF end_pos # -1
      THEN IF after_comment = "" THEN [s |-> s, is_comment |-> TRUE]
           ELSE [s |-> [s EXCEPT !.code_lines = @ + 1], is_comment |-> is_comment]
      ELSE [s |-> [s EXCEPT !.in_multi_comment = TRUE, !.multi_comment_end = end],
            is_comment |-> TRUE]

\* `if !is_comment { ... }`: the loop over config.single_line_comments and
\* the count of a line without a marker
SimpleSingleLine(config, st, line_content) ==
  LET k == FirstContained(line_content, config.single_line_comments)
      pos_found == Find(line_content, config.single_line_comments[k])
      before_comment == Trim(SliceTo(line_content, pos_found))
  IN  IF st.is_comment THEN st
      ELSE IF k = 0 THEN [st EXCEPT !.s.code_lines = @ + 1]
      ELSE IF before_comment = "" THEN [st EXCEPT !.is_comment = TRUE]
      ELSE [st EXCEPT !.s.code_lines = @ + 1]

\* a non-blank line from the multi-line start loop to the end of the body
SimpleContent(config, s, line_content, is_comment) ==
  LET started == SimpleMultiLineStart(config, s, line_content, is_comment)
      st == SimpleSingleLine(config, started, line_content)
  IN  IF st.is_comment THEN [st.s EXCEPT !.comment_lines = @ + 1] ELSE st.s

\* one pass of `for line in lines` of analyze_file; config is Some(..) or None
SimpleLine(config, s, line) ==
  LET trimmed == Trim(line)
      end_pos == Find(trimmed, s.multi_comment_end)
      remainder == Trim(SliceFrom(trimmed, end_pos + Len(s.multi_comment_end)))
      closed == [s EXCEPT !.in_multi_comment = FALSE]
  IN  IF trimmed = "" THEN [s EXCEPT !.blank_lines = @ + 1]
      ELSE IF config = None THEN s
      ELSE IF s.in_multi_comment
      THEN IF end_pos = -1 THEN [s EXCEPT !.comment_lines = @ + 1]
           ELSE IF remainder = "" THEN [closed EXCEPT !.comment_lines = @ + 1]
           ELSE SimpleContent(config[1], closed, remainder, TRUE)
      ELSE SimpleContent(config[1], s, trimmed, FALSE)

\* what analyze_file returns: (language, stats).  Without a config
\* code_lines is set to total_lines - blank_lines before the loop has counted
\* a blank line.
SimpleReturn(extension, total_lines, s) ==
  [language |-> get_language_from_extension(extension),
   stats |-> [total_lines |-> total_lines,
              code_lines |-> IF get_language_config(extension) = None
                             THEN total_lines - SimpleInit.blank_lines
                             ELSE s.code_lines,
              comment_lines |-> s.comment_lines,
              blank_lines |-> s.blank_lines,
              files |-> 1]]

\* the lines a file of the simple counter is made of
SimpleLines(extension) ==
  LET config == get_language_config(extension)
      markers == IF config = None THEN <<>> ELSE config[1].single_line_comments
      pairs == IF config = None THEN <<>> ELSE config[1].multi_line_comments
  IN  {"", " ", "x = 1"}
      \cup {markers[k] \o " c" : k \in DOMAIN markers}
      \cup {"x " \o markers[k] \o " c" : k \in DOMAIN markers}
      \cup UNION {{pairs[k][1] \o " c " \o pairs[k][2],
                   pairs[k][1] \o " c",
                   "c " \o pairs[k][2],
                   "x " \o pairs[k][1] \o " c",
                   pairs[k][1] \o " c " \o pairs[k][2] \o " x",
                   "c " \o pairs[k][2] \o " x"} : k \in DOMAIN pairs}

InitSimple ==
  /\ rule \in SimpleRules
  /\ content = <<>>
  /\ pos = [i \in Invocations |-> 0]
  /\ scan = [i \in Invocations |-> SimpleInit]
  /\ result = [i \in Invocations |-> None]
  /\ NoRun

\* the next line of the file is `line`, and the first invocation scans it
FeedSimple ==
  \E line \in SimpleLines(rule) :
    /\ Len(content) < MaxLines
    /\ pos["first"] = Len(content)
    /\ result["first"] = None
    /\ content' = Append(content, line)
    /\ scan' = [scan EXCEPT !["first"] = SimpleLine(get_language_config(rule), @, line)]
    /\ pos' = [pos EXCEPT !["first"] = @ + 1]
    /\ UNCHANGED <<rule, result, runVars, postVars>>

\* the loop is over: analyze_file returns
FinishSimple ==
  /\ result["first"] = None
  /\ pos["first"] = Len(content)
  /\ result' = [result EXCEPT !["first"] =
                  Some(SimpleReturn(rule, Len(content), scan["first"]))]
  /\ UNCHANGED <<rule, content, pos, scan, runVars, postVars>>

NextSimple == FeedSimple \/ FinishSimple

SpecSimple == InitSimple /\ [][NextSimple]_vars

\* the LanguageStats a simple count returned
SimpleStats(i) == result[i][1].stats

(***************************************************************************)
(* C30.  In the simple counter, for every file whose extension has a       *)
(* language config, code_lines + comment_lines + blank_lines = total_lines *)
(* (after every line of the loop, and in the record returned): a line with *)
(* code before a multi-line start marker, or with text after a same-line   *)
(* terminator, is counted once.                                            *)
(***************************************************************************)
C30_SimpleCounterPartition ==
  \A i \in Invocations :
    get_language_config(rule) # None
    => /\ Counted(scan[i]) = pos[i]
       /\ Returned(i) => Counted(SimpleStats(i)) = SimpleStats(i).total_lines

(***************************************************************************)
(* C31.  In the simple counter, for a file whose extension has no language *)
(* config, every non-blank line is counted as code: code_lines is          *)
(* total_lines - blank_lines and comment_lines is 0, blank_lines being the *)
(* number of lines that are empty once trimmed.                            *)
(***************************************************************************)
C31_NoConfigNonBlankIsCode ==
  \A i \in Invocations :
    (Returned(i) /\ get_language_config(rule) = None)
    => /\ SimpleStats(i).blank_lines
            = Cardinality({k \in 1..Len(content) : IsBlank(content[k])})
       /\ SimpleStats(i).comment_lines = 0
       /\ SimpleStats(i).code_lines
            = SimpleStats(i).total_lines - SimpleStats(i).blank_lines

(***************************************************************************)
(* SpecFast: fast mode (--fast).  analyze_file_fast reads the file, counts *)
(* its lines and estimates the line classes as fixed shares of the count;  *)
(* no line is classified.  A file is a number of copies of one line.       *)
(***************************************************************************)
\* the longest file of fast mode, in lines
MaxFastLines == 20

\* (total_lines as f64 * share) as u64, share being percent / 100.  The f64
\* nearest to 0.8, 0.15 and 0.05 is within 2^-54 of it in relative terms, so
\* the rounded product of a line count is the integer itself where the exact
\* product is an integer and keeps its integer part elsewhere: the cast
\* gives the floor of the exact product.
Estimate(total_lines, percent) == (total_lines * percent) \div 100

analyze_file_fast(path, extension, lines) ==
  LET total_lines == Len(lines)
      file_size == FileSize(lines)
  IN  [lang_stats |->
         [total_lines |-> total_lines,
          code_lines |-> Estimate(total_lines, 80),
          comment_lines |-> Estimate(total_lines, 15),
          blank_lines |-> Estimate(total_lines, 5),
          files |-> 1,
          total_size |-> file_size,
          avg_line_length |->
            IF total_lines > 0 THEN Rat(file_size, total_lines) ELSE Zero,
          max_line_length |->
            IF lines = <<>> THEN 0
            ELSE CHOOSE m \in {Len(lines[k]) : k \in DOMAIN lines} :
                   \A k \in DOMAIN lines : Len(lines[k]) <= m,
          complexity_score |-> <<1, 10>>,
          functions |-> 0,
          classes |-> 0,
          imports |-> 0,
          todos |-> 0,
          fixmes |-> 0,
          code_percentage |-> <<80, 1>>,
          comment_percentage |-> <<15, 1>>,
          blank_percentage |-> <<5, 1>>,
          cyclomatic_complexity |-> <<1, 1>>,
          maintainability_index |-> <<75, 1>>],
       file_info |->
         [path |-> path,
          language |-> get_language_name(extension),
          lines |-> total_lines,
          size |-> file_size,
          encoding |-> "UTF-8",
          complexity |-> <<1, 10>>,
          todos |-> 0,
          fixmes |-> 0,
          cyclomatic_complexity |-> <<1, 1>>,
          maintainability_index |-> <<75, 1>>,
          technical_debt_ratio |-> Zero]]

\* the files of fast mode
FastFiles ==
  {[k \in 1..n |-> line] : n \in 0..MaxFastLines, line \in {"", "x = 1", "// c"}}

InitFast ==
  /\ rule \in {"rs", "py"}
  /\ content \in FastFiles
  /\ pos = [i \in Invocations |-> 0]
  /\ scan = [i \in Invocations |-> ScanInit]
  /\ result = [i \in Invocations |-> None]
  /\ NoRun

\* analyze_file_fast returns the record of the file
FinishFast ==
  /\ result["first"] = None
  /\ result' = [result EXCEPT !["first"] =
                  Some(analyze_file_fast("file", rule, content))]
  /\ UNCHANGED <<rule, content, pos, scan, runVars, postVars>>

NextFast == FinishFast

SpecFast == InitFast /\ [][NextFast]_vars

(***************************************************************************)
(* C32.  In fast mode the estimated code, comment and blank counts (80%,   *)
(* 15% and 5% of total_lines, each truncated) sum to total_lines, for      *)
(* every total_lines >= 0.                                                 *)
(***************************************************************************)
C32_FastEstimatesPartition ==
  Returned("first") => Counted(Stats("first")) = Stats("first").total_lines

(***************************************************************************)
(* C33.  In the full classifier every non-blank line increments code_lines *)
(* or comment_lines at least once, so after any sequence of lines          *)
(* code_lines + comment_lines >= total_lines - blank_lines.                *)
(***************************************************************************)
C33_NonBlankCountedAtLeastOnce ==
  /\ [](\A i \in Invocations :
          /\ scan[i].code_lines + scan[i].comment_lines
               >= pos[i] - scan[i].blank_lines
          /\ Returned(i)
               => Stats(i).code_lines + Stats(i).comment_lines
                    >= Stats(i).total_lines - Stats(i).blank_lines)
  /\ [][\A i \in Invocations :
          (Scanned(i) /\ ~IsBlank(ScannedLine(i)))
          => /\ scan'[i].code_lines >= scan[i].code_lines
             /\ scan'[i].comment_lines >= scan[i].comment_lines
             /\ scan'[i].code_lines + scan'[i].comment_lines
                  >= scan[i].code_lines + scan[i].comment_lines + 1]_vars

\* three lines scanned, one blank, one inside a multi-line comment, and one
\* counted more than once
C33_Witness ==
  /\ pos["first"] = 3
  /\ scan["first"].blank_lines = 1
  /\ scan["first"].in_multi_comment
  /\ scan["first"].comment_lines >= 1
  /\ scan["first"].code_lines + scan["first"].comment_lines > 2

\* the line invocation i scans has text before the start marker of `pair`,
\* and the terminator of the pair does not follow the marker on the line
CodeBeforeOpenMarker(i, pair) ==
  LET line == Trim(ScannedLine(i))
  IN  /\ Contains(line, pair[1])
      /\ Around(line, pair).before # ""
      /\ ~Around(line, pair).closed

\* the text before the start marker of `pair` holds no start marker: the
\* marker is the leftmost of the line
PlainBefore(i, pair) ==
  \A other \in PairsOf(RuleOf(rule)) :
    ~Contains(Around(Trim(ScannedLine(i)), pair).before, other[1])

\* the line is one code line and the scan goes on inside a comment that
\* ends at the terminator of `pair`
OpensCommentAsCode(i, pair) ==
  /\ CountedAs(scan'[i], scan[i], "code")
  /\ scan'[i].in_multi_comment
  /\ scan'[i].multi_comment_end = pair[2]

\* a non-blank line scanned inside a comment is a comment line; without the
\* terminator it is nothing else and the scan stays inside the comment
CommentUntilTerminator(i) ==
  (Scanned(i) /\ scan[i].in_multi_comment /\ ~IsBlank(ScannedLine(i)))
  => /\ scan'[i].comment_lines >= scan[i].comment_lines + 1
     /\ ~Contains(Trim(ScannedLine(i)), scan[i].multi_comment_end)
          => /\ CountedAs(scan'[i], scan[i], "comment")
             /\ scan'[i].in_multi_comment
             /\ scan'[i].multi_comment_end = scan[i].multi_comment_end

(***************************************************************************)
(* C34.  Outside a comment, a line with code before a multi-line start     *)
(* marker whose terminator does not appear later on the line is counted as *)
(* code and puts the scan inside a comment with that pair's terminator;    *)
(* the following non-blank lines are counted as comment until the          *)
(* terminator is found.                                                    *)
(***************************************************************************)
C34_CodeBeforeMarker ==
  [][\A i \in Invocations :
       /\ \A pair \in PairsOf(RuleOf(rule)) :
            (/\ ScannedNormal(i)
             /\ CodeBeforeOpenMarker(i, pair)
             /\ PlainBefore(i, pair))
            => OpensCommentAsCode(i, pair)
       /\ CommentUntilTerminator(i)]_vars

\* C34, amended: the same of the start marker of the first configured pair
\* whose start marker occurs in the line.
C34_CodeBeforeWinningMarker ==
  [][\A i \in Invocations :
       /\ \A pair \in PairsOf(RuleOf(rule)) :
            (/\ ScannedNormal(i)
             /\ CodeBeforeOpenMarker(i, pair)
             /\ FirstStartIn(RuleOf(rule), pair, Trim(ScannedLine(i))))
            => OpensCommentAsCode(i, pair)
       /\ CommentUntilTerminator(i)]_vars

\* the first line has code before two start markers and opened the comment
\* of the pair configured first; the second line, plain code text, was
\* counted as a comment and the scan is still inside the comment
C34_Witness ==
  /\ pos["first"] = 2
  /\ Len(content) = 2
  /\ \E pair \in PairsOf(RuleOf(rule)) :
       /\ FirstStartIn(RuleOf(rule), pair, content[1])
       /\ StartsWith(content[1], "x ")
       /\ Contains(content[1], pair[1])
       /\ Around(content[1], pair).before # ""
       /\ ~Around(content[1], pair).closed
       /\ \E other \in PairsOf(RuleOf(rule)) \ {pair} : Contains(content[1], other[1])
       /\ scan["first"].multi_comment_end = pair[2]
  /\ content[2] = "x = 1"
  /\ scan["first"].in_multi_comment
  /\ scan["first"].code_lines = 1
  /\ scan["first"].comment_lines = 1

(***************************************************************************)
(* C35.  Outside a comment, a line whose trimmed text begins with one of   *)
(* the rule's single-line comment markers is counted as a comment line,    *)
(* not as code, and leaves the scan outside a comment, whatever text       *)
(* follows the marker on the line.                                         *)
(***************************************************************************)
C35_MarkerLineIsComment ==
  [][\A i \in Invocations :
       \A k \in DOMAIN RuleOf(rule).single_line_comments :
         (/\ ScannedNormal(i)
          /\ StartsWith(Trim(ScannedLine(i)), RuleOf(rule).single_line_comments[k]))
         => /\ CountedAs(scan'[i], scan[i], "comment")
            /\ ~scan'[i].in_multi_comment]_vars

(***************************************************************************)
(* SpecSimpleMerge: the parallel loop of main (main.rs).  The threads of   *)
(* the pool take the files in any order; each analyses its file, and for a *)
(* file that gave a record locks `stats`, adds the record to the entry of  *)
(* its language and, when the metadata of the file can be read, locks      *)
(* `total_size` and adds the size; size_guard is dropped at the end of its *)
(* block and stats_guard at the end of the iteration.  shard_lock holds    *)
(* the owner of each of the two mutexes (0: unlocked), languages the map   *)
(* under `stats`, total_bytes_processed the counter under `total_size`.    *)
(***************************************************************************)
RECURSIVE SimpleScanAll(_, _, _)
\* the line loop of analyze_file over a whole file
SimpleScanAll(config, s, lines) ==
  IF lines = <<>> THEN s
  ELSE SimpleScanAll(config, SimpleLine(config, s, Head(lines)), Tail(lines))

\* analyze_file (main.rs): None for a file that cannot be read
analyze_file(extension, lines, readable) ==
  IF readable
  THEN Some(SimpleReturn(extension, Len(lines),
                         SimpleScanAll(get_language_config(extension),
                                       SimpleInit, lines)))
  ELSE None

\* LanguageStats::new()
LanguageStatsNew ==
  [total_lines |-> 0, code_lines |-> 0, comment_lines |-> 0, blank_lines |-> 0,
   files |-> 0]

\* LanguageStats::add
LanguageStatsAdd(self, other) ==
  [total_lines |-> self.total_lines + other.total_lines,
   code_lines |-> self.code_lines + other.code_lines,
   comment_lines |-> self.comment_lines + other.comment_lines,
   blank_lines |-> self.blank_lines + other.blank_lines,
   files |-> self.files + other.files]

\* the variables the loop of main.rs leaves alone
simpleFrame == <<scanVars, postVars, files, shard_of, files_info, processed_count,
                 final_files_info>>

Unlocked == [stats |-> 0, total_size |-> 0]

InitSimpleMerge ==
  /\ rule = "rs"
  /\ content = <<>>
  /\ pos = [i \in Invocations |-> 0]
  /\ scan = [i \in Invocations |-> SimpleInit]
  /\ result = [i \in Invocations |-> None]
  /\ files = CollectedFiles
  /\ pending = 1..NumFiles
  /\ worker = [w \in Workers |-> [pc |-> "idle", index |-> 0, occupied |-> FALSE]]
  /\ analysed = EmptyMap
  /\ languages = EmptyMap
  /\ shard_of = EmptyMap
  /\ shard_lock = Unlocked
  /\ files_info = EmptyMap
  /\ total_bytes_processed = 0
  /\ processed_count = 0
  /\ merged = {}
  /\ main_pc = "par_iter"
  /\ final_languages = EmptyMap
  /\ final_files_info = <<>>
  /\ hotspots = <<>>
  /\ quality_metrics = None

\* thread w takes file `index` and analyses it
SimpleAnalyse(w, index, readable) ==
  LET file_result == analyze_file(files[index].ext, files[index].lines, readable)
  IN  /\ main_pc = "par_iter"
      /\ worker[w].pc = "idle"
      /\ index \in pending
      /\ pending' = pending \ {index}
      /\ analysed' = Insert(analysed, index, file_result)
      /\ worker' = [worker EXCEPT ![w] =
            [pc |-> IF file_result = None THEN "idle" ELSE "lock_stats",
             index |-> IF file_result = None THEN 0 ELSE index,
             occupied |-> FALSE]]
      /\ UNCHANGED <<simpleFrame, languages, shard_lock, total_bytes_processed,
                     merged, main_pc, final_languages>>

\* stats.lock(): thread w waits until the mutex is free and takes it
LockStats(w) ==
  /\ worker[w].pc = "lock_stats"
  /\ shard_lock.stats = 0
  /\ shard_lock' = [shard_lock EXCEPT !.stats = w]
  /\ worker' = [worker EXCEPT ![w].pc = "add"]
  /\ UNCHANGED <<simpleFrame, pending, analysed, languages, total_bytes_processed,
                 merged, main_pc, final_languages>>

\* UnlockStats leaving the iteration with stats_guard never dropped
UnlockStats_Kept(w) ==
  /\ worker[w].pc = "unlock_stats"
  /\ worker' = [worker EXCEPT ![w] = [pc |-> "idle", index |-> 0, occupied |-> FALSE]]
  /\ UNCHANGED <<simpleFrame, pending, analysed, languages, shard_lock,
                 total_bytes_processed, merged, main_pc, final_languages>>

\* entry(language).or_insert_with(LanguageStats::new) and entry.add, then
\* fs::metadata(file_path), which gives the size or fails
AddStats(w, metadata_ok) ==
  LET record == analysed[worker[w].index][1]
      key == record.language
      entry == IF key \in DOMAIN languages THEN languages[key] ELSE LanguageStatsNew
  IN  /\ worker[w].pc = "add"
      /\ languages' = Insert(languages, key, LanguageStatsAdd(entry, record.stats))
      /\ merged' = merged \cup {worker[w].index}
      /\ worker' = [worker EXCEPT ![w].pc =
                      IF metadata_ok THEN "lock_size" ELSE "unlock_stats"]
      /\ UNCHANGED <<simpleFrame, pending, analysed, shard_lock,
                     total_bytes_processed, main_pc, final_languages>>

\* total_size.lock(), with stats_guard held
LockSize(w) ==
  /\ worker[w].pc = "lock_size"
  /\ shard_lock.total_size = 0
  /\ shard_lock' = [shard_lock EXCEPT !.total_size = w]
  /\ worker' = [worker EXCEPT ![w].pc = "add_size"]
  /\ UNCHANGED <<simpleFrame, pending, analysed, languages, total_bytes_processed,
                 merged, main_pc, final_languages>>

\* *size_guard += metadata.len(), and size_guard dropped at the end of its block
AddSize(w) ==
  /\ worker[w].pc = "add_size"
  /\ total_bytes_processed' =
       total_bytes_processed + FileSize(files[worker[w].index].lines)
  /\ shard_lock' = [shard_lock EXCEPT !.total_size = 0]
  /\ worker' = [worker EXCEPT ![w].pc = "unlock_stats"]
  /\ UNCHANGED <<simpleFrame, pending, analysed, languages, merged, main_pc,
                 final_languages>>

\* the end of the iteration: stats_guard dropped
UnlockStats(w) ==
  /\ worker[w].pc = "unlock_stats"
  /\ shard_lock' = [shard_lock EXCEPT !.stats = 0]
  /\ worker' = [worker EXCEPT ![w] = [pc |-> "idle", index |-> 0, occupied |-> FALSE]]
  /\ UNCHANGED <<simpleFrame, pending, analysed, languages, total_bytes_processed,
                 merged, main_pc, final_languages>>

\* for_each returns when every file has been processed: final_stats
SimpleJoin ==
  /\ main_pc = "par_iter"
  /\ pending = {}
  /\ \A w \in Workers : worker[w].pc = "idle"
  /\ main_pc' = "done"
  /\ final_languages' = languages
  /\ UNCHANGED <<simpleFrame, pending, worker, analysed, languages, shard_lock,
                 total_bytes_processed, merged>>

NextSimpleMerge ==
  \/ \E w \in Workers, index \in 1..NumFiles, readable \in BOOLEAN :
       SimpleAnalyse(w, index, readable)
  \/ \E w \in Workers : LockStats(w)
  \/ \E w \in Workers, metadata_ok \in BOOLEAN : AddStats(w, metadata_ok)
  \/ \E w \in Workers : LockSize(w)
  \/ \E w \in Workers : AddSize(w)
  \/ \E w \in Workers : UnlockStats(w)
  \/ SimpleJoin

SpecSimpleMerge == InitSimpleMerge /\ [][NextSimpleMerge]_vars

\* the threads of the pool and the main thread keep running
SpecSimpleMergeFair == SpecSimpleMerge /\ WF_vars(NextSimpleMerge)

\* the files that gave a record, and those among them of language `key`
SimpleAnalysed == {i \in DOMAIN analysed : analysed[i] # None}

SimpleAnalysedIn(key) == {i \in SimpleAnalysed : analysed[i][1].language = key}

\* the records of the analysed files, by file
SimpleStatsOf == [i \in SimpleAnalysed |-> analysed[i][1].stats]

\* the mutexes thread w holds
HeldBy(w) == {m \in DOMAIN shard_lock : shard_lock[m] = w}

(***************************************************************************)
(* C39.  In the parallel merge loop of the simple counter a thread takes   *)
(* the stats lock before the total-size lock and holds neither when its    *)
(* iteration is over, so no interleaving of the threads deadlocks, and the *)
(* loop ends with every analysed file merged exactly once.                 *)
(***************************************************************************)
C39_MergeLoopTerminates ==
  /\ [](\A w \in Workers :
          /\ "total_size" \in HeldBy(w) => "stats" \in HeldBy(w)
          /\ worker[w].pc \in {"idle", "lock_stats"} => HeldBy(w) = {}
          /\ worker[w].pc \in {"add", "lock_size", "add_size", "unlock_stats"}
               => "stats" \in HeldBy(w))
  /\ [](main_pc # "done" => ENABLED NextSimpleMerge)
  /\ <>(main_pc = "done")
  /\ [](main_pc = "done"
          => /\ shard_lock = Unlocked
             /\ DOMAIN analysed = 1..NumFiles
             /\ merged = SimpleAnalysed
             /\ DOMAIN final_languages = {analysed[i][1].language : i \in SimpleAnalysed}
             /\ \A key \in DOMAIN final_languages :
                  /\ final_languages[key].files = Cardinality(SimpleAnalysedIn(key))
                  /\ \A f \in {"total_lines", "code_lines", "comment_lines",
                               "blank_lines"} :
                       final_languages[key][f]
                         = SumField(SimpleStatsOf, SimpleAnalysedIn(key), f))

\* one thread holds both locks while another, its file analysed, waits for
\* the stats lock, a file having been merged before
C39_Witness ==
  \E w1, w2 \in Workers :
    /\ worker[w1].pc = "add_size"
    /\ HeldBy(w1) = {"stats", "total_size"}
    /\ worker[w2].pc = "lock_stats"
    /\ Cardinality(merged) >= 2

(***************************************************************************)
(* SpecPost: the post-pass of main on the outcome of a finished parallel   *)
(* loop.  A file is given by its measures, not its lines, so that files of *)
(* hundreds of lines and populations of a hundred files can be ranked; the *)
(* records are what analyze_file_advanced derives from such measures.      *)
(***************************************************************************)
\* the uniform files of an outlier population
UniformFiles == 100

\* the files of a mixed population, at most
MaxPostFiles == 17

\* the length of the pattern a mixed population repeats
PatternLen == 2

\* collected lists up to this length come out of the map in every order
MaxPermuted == 3

\* the measures of a file
Measure(path, ext, total_lines, code_lines, comment_lines, functions, todos, fixmes, complexity, cyclomatic, size) ==
  [path |-> path, ext |-> ext, total_lines |-> total_lines,
   code_lines |-> code_lines, comment_lines |-> comment_lines,
   blank_lines |-> total_lines - code_lines - comment_lines,
   functions |-> functions, todos |-> todos, fixmes |-> fixmes,
   complexity |-> complexity, cyclomatic |-> cyclomatic, size |-> size]

\* the (lang_stats, file_info) of a file with measures m, found as file `index`
Measured(index, m) ==
  LET Percentage(n) == IF m.total_lines > 0 THEN Rat(n * 100, m.total_lines) ELSE Zero
      \* 171 - 5.2 ln(2 n) - 0.23 ln(c) is above 100 up to hundreds of
      \* thousands of lines: the index of a file with code is 100.0
      maintainability_index ==
        IF m.code_lines > 0 /\ m.total_lines > 0 THEN <<100, 1>> ELSE <<50, 1>>
  IN  [lang_stats |->
         [total_lines |-> m.total_lines,
          code_lines |-> m.code_lines,
          comment_lines |-> m.comment_lines,
          blank_lines |-> m.blank_lines,
          files |-> 1,
          total_size |-> m.size,
          avg_line_length |->
            IF m.total_lines > 0 THEN Rat(m.size - m.total_lines, m.total_lines)
            ELSE Zero,
          max_line_length |-> IF m.total_lines > 0 THEN 80 ELSE 0,
          complexity_score |-> m.complexity,
          functions |-> m.functions,
          classes |-> 0,
          imports |-> 0,
          todos |-> m.todos,
          fixmes |-> m.fixmes,
          code_percentage |-> Percentage(m.code_lines),
          comment_percentage |-> Percentage(m.comment_lines),
          blank_percentage |-> Percentage(m.blank_lines),
          cyclomatic_complexity |-> m.cyclomatic,
          maintainability_index |-> maintainability_index],
       file_info |->
         [path |-> index,
          language |-> get_language_name(m.ext),
          lines |-> m.total_lines,
          size |-> m.size,
          encoding |-> "UTF-8",
          complexity |-> m.complexity,
          todos |-> m.todos,
          fixmes |-> m.fixmes,
          cyclomatic_complexity |-> m.cyclomatic,
          maintainability_index |-> maintainability_index,
          technical_debt_ratio |->
            IF m.total_lines > 0 THEN Rat((m.todos + m.fixmes) * 100, m.total_lines)
            ELSE Zero]]

\* the kinds of file of a mixed population
Profiles ==
  [clean |-> Measure("src/a.rs", "rs", 20, 15, 3, 1, 0, 0, <<1, 20>>, <<2, 1>>, 500),
   large |-> Measure("tests/test_b.py", "py", 700, 600, 50, 30, 6, 1,
                     <<3, 10>>, <<6, 1>>, 120000),
   debt |-> Measure("lib/debt.rb", "rb", 40, 30, 10, 0, 10, 0, Zero, <<1, 1>>, 900),
   notes |-> Measure("project/docs/notes.ini", "ini", 10, 0, 10, 0, 0, 0,
                     Zero, <<1, 1>>, 300),
   empty |-> Measure("src/e.rs", "rs", 0, 0, 0, 0, 0, 0, Zero, <<1, 1>>, 0)]

\* the populations of files of all kinds: a pattern of kinds, repeated
MixedPopulations ==
  LET kinds == {Profiles[name] : name \in DOMAIN Profiles}
  IN  {[i \in 1..n |-> pattern[((i - 1) % PatternLen) + 1]] :
         n \in 0..MaxPostFiles, pattern \in [1..PatternLen -> kinds]}

\* the uniform files of the outlier populations
UniformMeasures ==
  {Measure("src/u.rs", "rs", lines, lines, 0, 1, todos, 0, complexity, <<2, 1>>,
           lines * 30) :
     lines \in {10, 40}, todos \in {0, 5},
     complexity \in {<<1, 100>>, <<1, 10>>}}

\* the languages the uniform files are written in, in turn
UniformExtensions == <<"rs", "py", "php", "rb", "lua", "perl", "sql">>

\* the uniform file u, found as file i
InLanguage(u, i) ==
  LET ext == UniformExtensions[((i - 1) % Len(UniformExtensions)) + 1]
  IN  [u EXCEPT !.ext = ext, !.path = "src/u." \o ext]

\* the file ten times as long and ten times as complex as u
TenTimes(u) ==
  [u EXCEPT !.path = "src/outlier.rs",
            !.total_lines = 10 * @, !.code_lines = 10 * @, !.size = 10 * @,
            !.complexity = RatMul(<<10, 1>>, @)]

\* UniformFiles uniform files and the outlier, found first, last or amid
OutlierPopulations ==
  {[i \in 1..(UniformFiles + 1) |->
      IF i = at THEN TenTimes(u) ELSE InLanguage(u, i)] :
     u \in UniformMeasures,
     at \in {1, (UniformFiles \div 2) + 1, UniformFiles + 1}}

\* the elements of a set of numbers, ascending: the place of an element is
\* one more than the number of elements below it
Ascending(S) ==
  CHOOSE asc \in
    {[k \in 1..Cardinality(S) |-> CHOOSE x \in S : place[x] = k] :
       place \in {pl \in {[x \in S |-> 1 + Cardinality({y \in S : y < x})]} :
                    pl = pl}} : asc = asc

\* the orders in which the values of the map of file infos may be collected
CollectedOrders(indices) ==
  LET asc == Ascending(indices)
      n == Len(asc)
  IN  IF n <= MaxPermuted THEN OrdersOf(indices)
      ELSE {asc,
            [k \in 1..n |-> asc[n + 1 - k]],
            [k \in 1..n |-> asc[(k % n) + 1]]}

\* the parallel loop is over for `population`, and the maps are collected
InitPost ==
  \E population \in MixedPopulations \cup OutlierPopulations :
    /\ rule = "rs"
    /\ content = <<>>
    /\ pos = [i \in Invocations |-> 0]
    /\ scan = [i \in Invocations |-> ScanInit]
    /\ result = [i \in Invocations |-> None]
    /\ files = [i \in DOMAIN population |->
                  [path |-> population[i].path, ext |-> population[i].ext]]
    /\ pending = {}
    /\ worker = [w \in Workers |-> [pc |-> "idle", index |-> 0, occupied |-> FALSE]]
    /\ analysed = [i \in DOMAIN population |-> Some(Measured(i, population[i]))]
    /\ merged = DOMAIN population
    /\ languages =
         [key \in {Language(i) : i \in DOMAIN population} |->
            SequentialMerge(Ascending(MergedInto(key)))]
    /\ shard_of = [key \in LanguagesOf(files) |-> 0]
    /\ shard_lock = [sh \in Shards |-> 0]
    /\ files_info = [i \in DOMAIN population |-> FileInfoOf(i)]
    \* every size added to the counter is added to a language as well
    /\ total_bytes_processed = SumField(languages, DOMAIN languages, "total_size")
    /\ processed_count = Len(population)
    /\ main_pc = "hotspots"
    /\ final_languages = languages
    /\ \E order \in CollectedOrders(DOMAIN population) :
         final_files_info = [k \in DOMAIN order |-> files_info[order[k]]]
    /\ hotspots = <<>>
    /\ quality_metrics = None

NextPost == DetectHotspots \/ QualityMetrics

SpecPost == InitPost /\ [][NextPost]_vars

(***************************************************************************)
(* The post-pass: hotspots and quality metrics.                            *)
(***************************************************************************)
\* detect_hotspots_improved has returned
Ranked == main_pc \in {"quality", "done"}

\* the population is UniformFiles uniform files and their outlier
HasOutlier == \E i \in DOMAIN files : files[i].path = "src/outlier.rs"

\* the file found as the outlier
Outlier == CHOOSE i \in DOMAIN files : files[i].path = "src/outlier.rs"

\* C14: for every population of 100 identical files and one file of ten
\* times their line count and ten times their complexity score, the hotspot
\* list is not empty and its first element is that file.
C14_OutlierRankedFirst ==
  (Ranked /\ HasOutlier) => (hotspots # <<>> /\ hotspots[1].path = Outlier)

\* C15: files of equal final ranking score are in the hotspot list in the
\* order in which they were discovered, whatever the order in which the
\* results were stored and collected.
C15_TiesInDiscoveryOrder ==
  Ranked =>
    \A p, q \in DOMAIN hotspots :
      (p < q /\ RankScore(hotspots[p]) = RankScore(hotspots[q]))
      => hotspots[p].path < hotspots[q].path

\* the places in file_infos of the files whose risk_score reaches the cutoff
AtRisk(file_infos) ==
  IF file_infos = <<>> THEN {}
  ELSE UNION {{k \in DOMAIN file_infos : RiskScore(file_infos[k], t) >= RiskCutoff} :
                t \in {Thresholds(file_infos)}}

\* C16: the hotspot list is the files whose risk score reaches the cutoff
\* (3.0), by non-increasing composite score, cut to the first 15: it has the
\* lesser of 15 and the number of such files, every entry is an input file
\* at or above the cutoff, no file is listed twice, the composite scores do
\* not increase along the list, and no file left out outranks a listed one.
C16_HotspotListContract ==
  Ranked =>
    \A at_risk \in {AtRisk(final_files_info)} :
      /\ Len(hotspots) <= HotspotLimit
      /\ Len(hotspots) = MinOf({HotspotLimit, Cardinality(at_risk)})
      /\ \A p \in DOMAIN hotspots :
           \E k \in at_risk : hotspots[p] = final_files_info[k]
      /\ \A p, q \in DOMAIN hotspots :
           p # q => hotspots[p].path # hotspots[q].path
      /\ \A p, q \in DOMAIN hotspots :
           p < q => ~RatLess(RankScore(hotspots[p]), RankScore(hotspots[q]))
      /\ \A k \in at_risk :
           (\A p \in DOMAIN hotspots : hotspots[p] # final_files_info[k])
           => \A p \in DOMAIN hotspots :
                ~RatLess(RankScore(hotspots[p]), RankScore(final_files_info[k]))

\* more than 15 files of differing composite scores reach the cutoff, and
\* the list is cut to 15
C16_Witness ==
  /\ Ranked
  /\ Len(hotspots) = HotspotLimit
  /\ Cardinality(AtRisk(final_files_info)) > HotspotLimit
  /\ \E p, q \in DOMAIN hotspots :
       RatLess(RankScore(hotspots[q]), RankScore(hotspots[p]))

\* the divisors of the divisions calculate_quality_metrics_improved performs
\* on stats
QualityDivisors(stats) ==
  IF stats.total_files = 0 \/ stats.total_lines = 0 THEN {}
  ELSE LET langs == DOMAIN stats.languages
           rated == {l \in langs :
                       RatLess(Zero, stats.languages[l].maintainability_index)}
           total_maintainability_lines ==
             SumField(stats.languages, rated, "total_lines")
           doc_files ==
             Cardinality({k \in DOMAIN stats.files_info :
                            IsDocFile(stats.files_info[k])})
       IN  (IF total_maintainability_lines > 0 THEN {total_maintainability_lines}
            ELSE {Cardinality(langs)})
           \cup {d \in {SumField(stats.languages, langs, "code_lines")} : d > 0}
           \cup {stats.total_files, stats.total_lines}
           \cup (IF doc_files > 0 THEN {stats.total_files} ELSE {})
           \cup (IF Len(stats.files_info) > 10
                 THEN {Len(stats.files_info), Cardinality(langs)}
                      \cup {stats.languages[l].total_lines :
                              l \in {l \in langs : stats.languages[l].total_lines > 0}}
                 ELSE {})

\* calculate_quality_metrics_improved has returned
Rated == quality_metrics # None

\* C17: over no files or no lines the five quality metrics are all 0 and
\* nothing is divided by zero; over other input no divisor is zero, and no
\* metric is undefined.
C17_QualityGuardsZero ==
  Rated =>
    \A stats \in {QualityInput} :
      /\ (stats.total_files = 0 \/ stats.total_lines = 0)
           => quality_metrics[1] = ZeroMetrics
      /\ 0 \notin QualityDivisors(stats)
      /\ \A metric \in DOMAIN quality_metrics[1] :
           quality_metrics[1][metric] # Undefined

\* files were analysed, none of them has a line, and the metrics are all 0
C17_Witness ==
  /\ Rated
  /\ final_files_info # <<>>
  /\ QualityInput.total_files > 0
  /\ QualityInput.total_lines = 0
  /\ quality_metrics[1] = ZeroMetrics

\* the values of field f over the files of file_infos
ValuesOf(file_infos, f) == {file_infos[k][f] : k \in DOMAIN file_infos}

(***************************************************************************)
(* C36.  detect_hotspots_improved returns the empty list for an empty      *)
(* input; for every non-empty input of n files the percentile index        *)
(* n * 90 / 100 is within 0..n-1, so the threshold lookup reads an element *)
(* of the population.                                                      *)
(***************************************************************************)
C36_PercentileIndexInBounds ==
  LET n == Len(final_files_info)
  IN  /\ n > 0 => PercentileIndex(n) \in 0..(n - 1)
      /\ (Ranked /\ n = 0) => hotspots = <<>>
      /\ (Ranked /\ n > 0)
           => LET t == Thresholds(final_files_info)
              IN  /\ t.large_file_threshold
                       \in {300} \cup ValuesOf(final_files_info, "lines")
                  /\ t.high_complexity_threshold
                       \in {<<15, 100>>} \cup ValuesOf(final_files_info, "complexity")

\* the post-pass has ranked a population of more than ten files, whose 90th
\* percentile is not its last element, and kept some
C36_Witness ==
  /\ Ranked
  /\ Len(final_files_info) > 10
  /\ PercentileIndex(Len(final_files_info)) < Len(final_files_info) - 1
  /\ hotspots # <<>>

(***************************************************************************)
(* C37.  For every population of 10 or fewer files the 90th-percentile     *)
(* element is the population maximum, so no file's line count exceeds the  *)
(* size threshold and no file's complexity score exceeds the complexity    *)
(* threshold: no file receives size-excess or complexity-excess risk       *)
(* score.                                                                  *)
(***************************************************************************)
C37_SmallPopulationNoExcess ==
  LET n == Len(final_files_info)
  IN  (Ranked /\ n >= 1 /\ n <= 10)
      => LET t == Thresholds(final_files_info)
         IN  /\ PercentileIndex(n) = n - 1
             /\ \A k \in 1..n :
                  LET file == final_files_info[k]
                  IN  /\ file.lines <= t.large_file_threshold
                      /\ ~RatLess(t.high_complexity_threshold, file.complexity)
                      \* the score is the one of thresholds the file meets
                      /\ RiskScore(file, t)
                           = RiskScore(file,
                               [t EXCEPT !.large_file_threshold = file.lines,
                                         !.high_complexity_threshold = file.complexity])

\* ten files ranked, one of 700 lines and complexity 0.3 among them, which
\* is kept for its other scores
C37_Witness ==
  /\ Ranked
  /\ Len(final_files_info) = 10
  /\ \E k \in 1..10 :
       /\ final_files_info[k].lines = 700
       /\ final_files_info[k].complexity = <<3, 10>>
  /\ \E k \in 1..10 : final_files_info[k].lines < 300
  /\ hotspots # <<>>

(***************************************************************************)
(* SpecRisk: detect_hotspots_improved on two file infos that differ in the *)
(* maintainability index alone.  The index is an f64 of 0..100; the        *)
(* analysis of a file gives 50 or 100 (75 in fast mode), and the function  *)
(* takes any.                                                              *)
(***************************************************************************)
\* maintainability indices on both sides of the cuts at 0, 20 and 40
MaintainabilityValues == {0, 10, 20, 30, 40, 50, 100}

\* the file info of `profile` with maintainability index mi
WithMaintainability(profile, mi) ==
  [Measured(1, profile).file_info EXCEPT !.maintainability_index = RatOfInt(mi)]

InitRisk ==
  \E name \in DOMAIN Profiles, first_mi \in MaintainabilityValues,
     second_mi \in MaintainabilityValues :
    /\ rule = "rs"
    /\ content = <<>>
    /\ pos = [i \in Invocations |-> 0]
    /\ scan = [i \in Invocations |-> ScanInit]
    /\ result = [i \in Invocations |-> None]
    /\ files = <<>>
    /\ pending = {}
    /\ worker = [w \in Workers |-> [pc |-> "idle", index |-> 0, occupied |-> FALSE]]
    /\ analysed = EmptyMap
    /\ languages = EmptyMap
    /\ shard_of = EmptyMap
    /\ shard_lock = [sh \in Shards |-> 0]
    /\ files_info = EmptyMap
    /\ total_bytes_processed = 0
    /\ processed_count = 0
    /\ merged = {}
    /\ main_pc = "hotspots"
    /\ final_languages = EmptyMap
    /\ final_files_info = <<WithMaintainability(Profiles[name], first_mi),
                            WithMaintainability(Profiles[name], second_mi)>>
    /\ hotspots = <<>>
    /\ quality_metrics = None

NextRisk == DetectHotspots

SpecRisk == InitRisk /\ [][NextRisk]_vars

\* files a and b of the input are identical but for the maintainability index
SameButMaintainability(a, b) ==
  [final_files_info[a] EXCEPT !.maintainability_index = Zero]
    = [final_files_info[b] EXCEPT !.maintainability_index = Zero]

=============================================================================
